---- MODULE Spec2Model ----
(***************************************************************************)
(* A model of the granite translator: Rust MIR -> Petri net.               *)
(*                                                                         *)
(* The input program (the answers of the CFG provider and of the           *)
(* classification oracle) is fixed in Init; the actions are the steps of   *)
(* Translator::run (the walk of the call stack and the drain of the        *)
(* pending threads), Translator::get_result, and the token game on the     *)
(* net that get_result hands over.                                         *)
(***************************************************************************)
EXTENDS Integers, Sequences, FiniteSets, TLC

VARIABLES
    program,        \* the input: has_entry, functions (name -> CFG)
    pc,             \* position of run: "new", "translate_main", "translate_threads", "done", "failed"
    err_str,        \* Translator.err_str (Option)
    net,            \* Translator.net
    call_stack,     \* Translator.call_stack, top = last element
    mutex_manager,  \* Translator.mutex_manager
    thread_manager, \* Translator.thread_manager
    panic,          \* the fatal stop (a Rust panic) that ended run, or NoPanic
    drained,        \* the threads pop_thread has returned so far, in order
    results,        \* what the calls of get_result have returned, in order
    marking,        \* token game on the first returned net: tokens per place
    fired           \* token game: the transitions fired so far, in order

vars == <<program, pc, err_str, net, call_stack, mutex_manager, thread_manager,
          panic, drained, results, marking, fired>>

----------------------------------------------------------------------------
(* Bounds of the model *)

\* the entry function makes at most this many calls in a row
MaxCalls == 4
\* get_result is called at most this many times
MaxGetResult == 2
\* the token game fires at most this many transitions
MaxFire == 8
\* Call sites of the entry function in the runs checked for termination
MaxCallsLive == 3

----------------------------------------------------------------------------
(* Options, names, labels *)

None == <<>>
Some(x) == <<x>>
IsSome(o) == o # <<>>
Unwrap(o) == o[1]

NoPanic == "NoPanic"

RECURSIVE JoinSegments(_)
JoinSegments(segments) ==
    IF Len(segments) = 0 THEN ""
    ELSE IF Len(segments) = 1 THEN segments[1]
    ELSE segments[1] \o "_" \o JoinSegments(Tail(segments))

\* A qualified name is the sequence of its path segments ("std::env::args" is
\* <<"std", "env", "args">>); sanitize replaces every "::" by "_".
sanitize(function_name) == JoinSegments(function_name)

\* naming::program
PROGRAM_START == "PROGRAM_START"
PROGRAM_END == "PROGRAM_END"
PROGRAM_PANIC == "PROGRAM_PANIC"

\* naming::function
return_transition_label(function_name) == sanitize(function_name) \o "_RETURN"
foreign_call_transition_label(function_name) == sanitize(function_name) \o "_CALL"
foreign_call_unwind_transition_label(function_name) == sanitize(function_name) \o "_CALL_UNWIND"
diverging_call_transition_label(function_name) == sanitize(function_name) \o "_DIVERGING_CALL"
panic_transition_label(function_name) == sanitize(function_name) \o "_PANIC"

\* naming::thread
\* Faulty variant of function_transition_label: the label numbers the requests,
\* so it depends on how many elements the net holds when it is requested
function_transition_label_by_request(function_name, index) ==
    sanitize(function_name) \o "_" \o ToString(index + Cardinality(net.transitions))

function_transition_label(function_name, index) ==
    sanitize(function_name) \o "_" \o ToString(index)
start_place_label(index) == "THREAD_START_" \o ToString(index)
end_place_label(index) == "THREAD_END_" \o ToString(index)

\* naming::mutex
mutex_function_transition_label(function_name, index) ==
    sanitize(function_name) \o "_" \o ToString(index)
mutex_unlocked_place_label(index) == "MUTEX_" \o ToString(index) \o "_UNLOCKED"
mutex_locked_place_label(index) == "MUTEX_" \o ToString(index) \o "_LOCKED"

\* naming::basic_block and naming::statement, as the expected outputs show them
basic_block_place_label(function_name, block) ==
    sanitize(function_name) \o "_BASIC_BLOCK_" \o ToString(block)
basic_block_end_place_label(function_name, block) ==
    sanitize(function_name) \o "_BASIC_BLOCK_END_PLACE_" \o ToString(block)
statement_transition_label(function_name, block, statement) ==
    sanitize(function_name) \o "_BLOCK_" \o ToString(block)
        \o "_STATEMENT_" \o ToString(statement)
goto_transition_label(function_name, block) ==
    sanitize(function_name) \o "_GOTO_" \o ToString(block)
switch_int_transition_label(function_name, block) ==
    sanitize(function_name) \o "_SWITCH_INT_" \o ToString(block)
drop_transition_label(function_name, block) ==
    sanitize(function_name) \o "_DROP_" \o ToString(block)
unwind_transition_label(function_name, block) ==
    sanitize(function_name) \o "_UNWIND_" \o ToString(block)

\* The callees the translator knows by name
STD_SYNC_MUTEX_NEW == <<"std", "sync", "Mutex", "new">>
STD_SYNC_MUTEX_LOCK == <<"std", "sync", "Mutex", "lock">>
STD_THREAD_SPAWN == <<"std", "thread", "spawn">>
STD_THREAD_JOIN == <<"std", "thread", "JoinHandle", "join">>
CORE_PANICKING_PANIC == <<"core", "panicking", "panic">>

is_panic_function(function_name) == function_name = CORE_PANICKING_PANIC
is_mutex_new(function_name) == function_name = STD_SYNC_MUTEX_NEW
is_mutex_lock(function_name) == function_name = STD_SYNC_MUTEX_LOCK
is_thread_spawn(function_name) == function_name = STD_THREAD_SPAWN
is_thread_join(function_name) == function_name = STD_THREAD_JOIN

----------------------------------------------------------------------------
(* The net model.  A translator state t is the record of the Translator's    *)
(* fields plus the pending panic; every operation maps t to t and does       *)
(* nothing once a panic is pending.                                          *)

EmptyNet == [places |-> {}, transitions |-> {}, arcs |-> {}, tokens |-> <<>>]

\* A call evaluates the translator it is handed once, before its body runs
ByValue(x, F(_)) == CHOOSE result \in {F(value) : value \in {x}} : TRUE

Panic(translator, message) ==
    ByValue(translator, LAMBDA t :
        IF t.panic # NoPanic THEN t ELSE [t EXCEPT !.panic = message])

TokensOf(n, place) == IF place \in DOMAIN n.tokens THEN n.tokens[place] ELSE 0

add_place(translator, label) ==
    ByValue(translator, LAMBDA t :
        IF t.panic # NoPanic THEN t
        ELSE IF label \in t.net.places THEN Panic(t, "duplicate place label")
        ELSE [t EXCEPT !.net.places = @ \cup {label}])

add_transition(translator, label) ==
    ByValue(translator, LAMBDA t :
        IF t.panic # NoPanic THEN t
        ELSE IF label \in t.net.transitions THEN Panic(t, "duplicate transition label")
        ELSE [t EXCEPT !.net.transitions = @ \cup {label}])

add_token(translator, place, n) ==
    ByValue(translator, LAMBDA t :
        IF t.panic # NoPanic THEN t
        ELSE IF place \notin t.net.places THEN Panic(t, "token for a place the net does not own")
        ELSE [t EXCEPT !.net.tokens =
                [p \in DOMAIN @ \cup {place} |-> IF p = place THEN TokensOf(t.net, place) + n ELSE @[p]]])

add_arc_place_transition(translator, place, transition) ==
    ByValue(translator, LAMBDA t :
        IF t.panic # NoPanic THEN t
        ELSE IF place \notin t.net.places \/ transition \notin t.net.transitions
             THEN Panic(t, "arc to an element the net does not own")
        ELSE [t EXCEPT !.net.arcs = @ \cup {[from |-> place, to |-> transition, weight |-> 1]}])

add_arc_transition_place(translator, transition, place) ==
    ByValue(translator, LAMBDA t :
        IF t.panic # NoPanic THEN t
        ELSE IF place \notin t.net.places \/ transition \notin t.net.transitions
             THEN Panic(t, "arc to an element the net does not own")
        ELSE [t EXCEPT !.net.arcs = @ \cup {[from |-> transition, to |-> place, weight |-> 1]}])

----------------------------------------------------------------------------
(* Handle memory of one activation record (mir_function::Memory) *)

Place(local) == [local |-> local, projection |-> <<>>]
Field(local, field) == [local |-> local, projection |-> <<field>>]

EmptyMemory ==
    [places_linked_to_mutexes |-> <<>>,
     places_linked_to_lock_guards |-> <<>>,
     places_linked_to_join_handles |-> <<>>,
     places_linked_to_condvars |-> <<>>]

\* HashMap::insert: the new value replaces the old one
Insert(map, key, value) ==
    [k \in DOMAIN map \cup {key} |-> IF k = key THEN value ELSE map[k]]

Top(t) == t.call_stack[Len(t.call_stack)]
Memory(t) == Top(t).memory

\* Faulty variant of link_place_to_mutex: a place that is already linked is a fatal stop
link_place_to_mutex_once(translator, place, mutex_ref) ==
    ByValue(translator, LAMBDA t :
        IF t.panic # NoPanic THEN t
        ELSE IF place \in DOMAIN Memory(t).places_linked_to_mutexes
             THEN Panic(t, "BUG: The place is already linked to a mutex")
        ELSE [t EXCEPT !.call_stack[Len(t.call_stack)].memory.places_linked_to_mutexes =
                Insert(@, place, mutex_ref)])

link_place_to_mutex(translator, place, mutex_ref) ==
    ByValue(translator, LAMBDA t :
        IF t.panic # NoPanic THEN t
        ELSE [t EXCEPT !.call_stack[Len(t.call_stack)].memory.places_linked_to_mutexes =
                Insert(@, place, mutex_ref)])

\* Faulty variant of link_place_to_lock_guard: the link is written to the mutex map
link_place_to_lock_guard_in_mutex_map(translator, place, mutex_ref) ==
    ByValue(translator, LAMBDA t :
        IF t.panic # NoPanic THEN t
        ELSE [t EXCEPT !.call_stack[Len(t.call_stack)].memory.places_linked_to_mutexes =
                Insert(@, place, mutex_ref)])

link_place_to_lock_guard(translator, place, mutex_ref) ==
    ByValue(translator, LAMBDA t :
        IF t.panic # NoPanic THEN t
        ELSE [t EXCEPT !.call_stack[Len(t.call_stack)].memory.places_linked_to_lock_guards =
                Insert(@, place, mutex_ref)])

\* Faulty variant of link_place_to_join_handle: a place that has a link keeps it
link_place_to_join_handle_keeps_first(translator, place, thread_ref) ==
    ByValue(translator, LAMBDA t :
        IF t.panic # NoPanic THEN t
        ELSE IF place \in DOMAIN Memory(t).places_linked_to_join_handles THEN t
        ELSE [t EXCEPT !.call_stack[Len(t.call_stack)].memory.places_linked_to_join_handles =
                Insert(@, place, thread_ref)])

link_place_to_join_handle(translator, place, thread_ref) ==
    ByValue(translator, LAMBDA t :
        IF t.panic # NoPanic THEN t
        ELSE [t EXCEPT !.call_stack[Len(t.call_stack)].memory.places_linked_to_join_handles =
                Insert(@, place, thread_ref)])

link_place_to_condvar(translator, place, condvar_ref) ==
    ByValue(translator, LAMBDA t :
        IF t.panic # NoPanic THEN t
        ELSE [t EXCEPT !.call_stack[Len(t.call_stack)].memory.places_linked_to_condvars =
                Insert(@, place, condvar_ref)])

\* The get_linked_* functions return Some(handle), or None where the code panics
get_linked_mutex(memory, place) ==
    IF place \in DOMAIN memory.places_linked_to_mutexes
    THEN Some(memory.places_linked_to_mutexes[place]) ELSE None

get_linked_lock_guard(memory, place) ==
    IF place \in DOMAIN memory.places_linked_to_lock_guards
    THEN Some(memory.places_linked_to_lock_guards[place]) ELSE None

\* Faulty variant of get_linked_join_handle: a location without a link yields the first thread
get_linked_join_handle_or_first(memory, place) ==
    IF place \in DOMAIN memory.places_linked_to_join_handles
    THEN Some(memory.places_linked_to_join_handles[place]) ELSE Some(0)

get_linked_join_handle(memory, place) ==
    IF place \in DOMAIN memory.places_linked_to_join_handles
    THEN Some(memory.places_linked_to_join_handles[place]) ELSE None

get_linked_condvar(memory, place) ==
    IF place \in DOMAIN memory.places_linked_to_condvars
    THEN Some(memory.places_linked_to_condvars[place]) ELSE None

is_linked_to_lock_guard(memory, place) ==
    place \in DOMAIN memory.places_linked_to_lock_guards

\* Faulty variant of link_place_to_same_mutex: the two places are exchanged
link_place_to_same_mutex_swapped(translator, place_to_be_linked, place_linked_to_mutex) ==
    ByValue(translator, LAMBDA t :
        IF t.panic # NoPanic THEN t
        ELSE LET mutex_ref == get_linked_mutex(Memory(t), place_to_be_linked) IN
             IF ~IsSome(mutex_ref) THEN Panic(t, "BUG: The place should be linked to a mutex")
             ELSE link_place_to_mutex(t, place_linked_to_mutex, Unwrap(mutex_ref)))

link_place_to_same_mutex(translator, place_to_be_linked, place_linked_to_mutex) ==
    ByValue(translator, LAMBDA t :
        IF t.panic # NoPanic THEN t
        ELSE LET mutex_ref == get_linked_mutex(Memory(t), place_linked_to_mutex) IN
             IF ~IsSome(mutex_ref) THEN Panic(t, "BUG: The place should be linked to a mutex")
             ELSE link_place_to_mutex(t, place_to_be_linked, Unwrap(mutex_ref)))

link_place_to_same_lock_guard(translator, place_to_be_linked, place_linked_to_lock_guard) ==
    ByValue(translator, LAMBDA t :
        IF t.panic # NoPanic THEN t
        ELSE LET mutex_ref == get_linked_lock_guard(Memory(t), place_linked_to_lock_guard) IN
             IF ~IsSome(mutex_ref) THEN Panic(t, "BUG: The place should be linked to a lock guard")
             ELSE link_place_to_lock_guard(t, place_to_be_linked, Unwrap(mutex_ref)))

link_place_to_same_join_handle(translator, place_to_be_linked, place_linked_to_join_handle) ==
    ByValue(translator, LAMBDA t :
        IF t.panic # NoPanic THEN t
        ELSE LET thread_ref == get_linked_join_handle(Memory(t), place_linked_to_join_handle) IN
             IF ~IsSome(thread_ref) THEN Panic(t, "BUG: The place should be linked to a join handle")
             ELSE link_place_to_join_handle(t, place_to_be_linked, Unwrap(thread_ref)))

link_place_to_same_condvar(translator, place_to_be_linked, place_linked_to_condvar) ==
    ByValue(translator, LAMBDA t :
        IF t.panic # NoPanic THEN t
        ELSE LET condvar_ref == get_linked_condvar(Memory(t), place_linked_to_condvar) IN
             IF ~IsSome(condvar_ref)
             THEN Panic(t, "BUG: The place should be linked to a condition variable")
             ELSE link_place_to_condvar(t, place_to_be_linked, Unwrap(condvar_ref)))

\* All the orders in which a HashMap may iterate over the keys of a set
Orders(S) ==
    {o \in [1..Cardinality(S) -> S] : \A i, j \in 1..Cardinality(S) : o[i] = o[j] => i = j}

\* Faulty variant of find_mutexes_linked_to_place: the whole location is
\* compared, not its local
find_mutexes_linked_to_place_exact(memory, place) ==
    LET keys == {k \in DOMAIN memory.places_linked_to_mutexes : k = place} IN
    {[i \in 1..Cardinality(keys) |-> memory.places_linked_to_mutexes[o[i]]] : o \in Orders(keys)}

\* find_mutexes_linked_to_place pushes the handle of every key with the same
\* local, in the iteration order of the HashMap, which the code does not fix:
\* the set of the vectors it may return.
find_mutexes_linked_to_place(memory, place) ==
    LET keys == {k \in DOMAIN memory.places_linked_to_mutexes : k.local = place.local} IN
    {[i \in 1..Cardinality(keys) |-> memory.places_linked_to_mutexes[o[i]]] : o \in Orders(keys)}

\* find_condvars_linked_to_place: the same loop over the map of the condition variables
find_condvars_linked_to_place(memory, place) ==
    LET keys == {k \in DOMAIN memory.places_linked_to_condvars : k.local = place.local} IN
    {[i \in 1..Cardinality(keys) |-> memory.places_linked_to_condvars[o[i]]] : o \in Orders(keys)}

----------------------------------------------------------------------------
(* Activation records (MirFunction) *)

\* MirFunction::new: the entry block stands on the start place
MirFunction_new(function_def_id, start_place, end_place) ==
    [def_id |-> function_def_id,
     name |-> function_def_id,
     start_place |-> start_place,
     end_place |-> end_place,
     block |-> 0,               \* the block the visitor is at
     at_terminator |-> FALSE,   \* the block is entered and its statement translated
     active |-> start_place,    \* the place the next transition starts from
     basic_blocks |-> {0},      \* the blocks that have their place already
     memory |-> EmptyMemory]

\* Faulty variant of push_function_to_call_stack: the new frame is put under
\* the frame of the caller
push_function_to_call_stack_under_top(translator, function_def_id, start_place, end_place) ==
    ByValue(translator, LAMBDA t :
        IF t.panic # NoPanic THEN t
        ELSE IF t.call_stack = <<>>
             THEN [t EXCEPT !.call_stack =
                     <<MirFunction_new(function_def_id, start_place, end_place)>>]
        ELSE [t EXCEPT !.call_stack =
                Append(SubSeq(@, 1, Len(@) - 1),
                       MirFunction_new(function_def_id, start_place, end_place))
                \o <<@[Len(@)]>>])

push_function_to_call_stack(translator, function_def_id, start_place, end_place) ==
    ByValue(translator, LAMBDA t :
        IF t.panic # NoPanic THEN t
        ELSE [t EXCEPT !.call_stack =
                Append(@, MirFunction_new(function_def_id, start_place, end_place))])

BlockPlace(frame, block) ==
    IF block = 0 THEN frame.start_place ELSE basic_block_place_label(frame.name, block)

\* The place of a block of the function on top, added to the net on first use
get_or_add_basic_block(translator, block) ==
    ByValue(translator, LAMBDA t :
        IF t.panic # NoPanic THEN t
        ELSE IF block \in Top(t).basic_blocks THEN t
        ELSE LET t1 == add_place(t, BlockPlace(Top(t), block)) IN
             IF t1.panic # NoPanic THEN t1
             ELSE [t1 EXCEPT !.call_stack[Len(t.call_stack)].basic_blocks = @ \cup {block}])

get_start_place_for_function_call(t) == Top(t).active

\* (start place, end place, cleanup place) of a call: the latter two are computed
\* by EndPlaceOfCall / CleanupPlaceOfCall, the net is updated here
get_place_refs_for_function_call(t, return_block, cleanup) ==
    LET t1 == get_or_add_basic_block(t, return_block) IN
    IF IsSome(cleanup) THEN get_or_add_basic_block(t1, Unwrap(cleanup)) ELSE t1

EndPlaceOfCall(t, return_block) == BlockPlace(Top(t), return_block)
CleanupPlaceOfCall(t, cleanup) ==
    IF IsSome(cleanup) THEN Some(BlockPlace(Top(t), Unwrap(cleanup))) ELSE None

\* The visitor leaves the terminator of the block on top and moves to the next block
NextBlock(translator) ==
    ByValue(translator, LAMBDA t :
        IF t.panic # NoPanic THEN t
        ELSE [t EXCEPT !.call_stack[Len(t.call_stack)] =
                [@ EXCEPT !.block = @ + 1, !.at_terminator = FALSE]])

----------------------------------------------------------------------------
(* special_function: calls translated without a walk of the callee *)

\* One transition from the start place to the end place, with a second output
\* to the cleanup place when the call has one
call_foreign_function(t, start_place, end_place, cleanup_place, transition_label) ==
    LET t1 == add_transition(t, transition_label)
        t2 == add_arc_place_transition(t1, start_place, transition_label)
        t3 == add_arc_transition_place(t2, transition_label, end_place)
    IN  IF IsSome(cleanup_place)
        THEN add_arc_transition_place(t3, transition_label, Unwrap(cleanup_place))
        ELSE t3

call_diverging_function(t, start_place, function_name) ==
    LET label == diverging_call_transition_label(function_name)
        t1 == add_transition(t, label)
    IN  add_arc_place_transition(t1, start_place, label)

call_panic_function(t, start_place, unwind_place, function_name) ==
    LET label == panic_transition_label(function_name)
        t1 == add_transition(t, label)
        t2 == add_arc_place_transition(t1, start_place, label)
    IN  add_arc_transition_place(t2, label, unwind_place)

----------------------------------------------------------------------------
(* MutexManager *)

MutexManager_new == [mutexes |-> <<>>, lock_counter |-> 0]

\* Mutex::new: the two places of the mutex; a new mutex is unlocked
Mutex_new(t, index) ==
    LET t1 == add_place(t, mutex_unlocked_place_label(index))
        t2 == add_place(t1, mutex_locked_place_label(index))
        t3 == add_token(t2, mutex_unlocked_place_label(index), 1)
    IN  IF t3.panic # NoPanic THEN t3
        ELSE [t3 EXCEPT !.mutex_manager.mutexes =
                Append(@, [index |-> index,
                           unlocked |-> mutex_unlocked_place_label(index),
                           locked |-> mutex_locked_place_label(index)])]

\* Faulty variant of translate_function_call: every call is numbered by the lock counter
translate_function_call_label_by_lock_counter(translator, function_name) ==
    ByValue(translator, LAMBDA t :
        mutex_function_transition_label(function_name, t.mutex_manager.lock_counter))

\* the label of the transition translate_function_call returns
translate_function_call_label(translator, function_name) ==
    ByValue(translator, LAMBDA t :
        LET index == IF function_name = STD_SYNC_MUTEX_NEW
                     THEN Len(t.mutex_manager.mutexes)
                     ELSE t.mutex_manager.lock_counter
        IN  mutex_function_transition_label(function_name, index))

translate_function_call(translator, function_name, start_place, end_place, cleanup_place) ==
    ByValue(translator, LAMBDA t :
        call_foreign_function(t, start_place, end_place, cleanup_place,
                              translate_function_call_label(t, function_name)))

\* returns MutexRef(index): the index is Len(mutexes) before the push
add_mutex(translator) ==
    ByValue(translator, LAMBDA t :
        Mutex_new(t, Len(t.mutex_manager.mutexes)))

\* Mutex::add_lock_guard: the transition takes the token of the unlocked place
Mutex_add_lock_guard(t, mutex, transition_lock) ==
    add_arc_place_transition(t, mutex.unlocked, transition_lock)

\* Mutex::add_unlock_guard: the transition gives the token back
Mutex_add_unlock_guard(t, mutex, transition_unlock) ==
    add_arc_transition_place(t, transition_unlock, mutex.unlocked)

\* Faulty variant of add_lock_guard: the guard is always taken on the first mutex
add_lock_guard_first_mutex(translator, mutex_ref, transition_lock) ==
    ByValue(translator, LAMBDA t :
        IF t.panic # NoPanic THEN t
        ELSE LET t1 == Mutex_add_lock_guard(t, t.mutex_manager.mutexes[1], transition_lock)
             IN  IF t1.panic # NoPanic THEN t1
                 ELSE [t1 EXCEPT !.mutex_manager.lock_counter = @ + 1])

\* Faulty variant of add_lock_guard: the lock transition does not take the token
add_lock_guard_no_arc(translator, mutex_ref, transition_lock) ==
    ByValue(translator, LAMBDA t :
        IF t.panic # NoPanic THEN t
        ELSE [t EXCEPT !.mutex_manager.lock_counter = @ + 1])

\* Faulty variant of add_lock_guard: the lock transition gives the token back at once
add_lock_guard_and_release(translator, mutex_ref, transition_lock) ==
    ByValue(translator, LAMBDA t :
        IF t.panic # NoPanic THEN t
        ELSE IF mutex_ref + 1 > Len(t.mutex_manager.mutexes)
             THEN Panic(t, "BUG: The mutex reference should be a valid index for the vector of mutexes")
        ELSE LET mutex == t.mutex_manager.mutexes[mutex_ref + 1]
                 t1 == Mutex_add_lock_guard(t, mutex, transition_lock)
                 t2 == Mutex_add_unlock_guard(t1, mutex, transition_lock)
             IN  IF t2.panic # NoPanic THEN t2
                 ELSE [t2 EXCEPT !.mutex_manager.lock_counter = @ + 1])

add_lock_guard(translator, mutex_ref, transition_lock) ==
    ByValue(translator, LAMBDA t :
        IF t.panic # NoPanic THEN t
        ELSE IF mutex_ref + 1 > Len(t.mutex_manager.mutexes)
             THEN Panic(t, "BUG: The mutex reference should be a valid index for the vector of mutexes")
        ELSE LET t1 == Mutex_add_lock_guard(t, t.mutex_manager.mutexes[mutex_ref + 1], transition_lock) IN
             IF t1.panic # NoPanic THEN t1
             ELSE [t1 EXCEPT !.mutex_manager.lock_counter = @ + 1])

add_unlock_guard(translator, mutex_ref, transition_unlock) ==
    ByValue(translator, LAMBDA t :
        IF t.panic # NoPanic THEN t
        ELSE IF mutex_ref + 1 > Len(t.mutex_manager.mutexes)
             THEN Panic(t, "BUG: The mutex reference should be a valid index for the vector of mutexes")
        ELSE Mutex_add_unlock_guard(t, t.mutex_manager.mutexes[mutex_ref + 1], transition_unlock))

\* translate_function_side_effects, branch Mutex::new
translate_side_effects_new(translator, return_value) ==
    ByValue(translator, LAMBDA t :
        IF t.panic # NoPanic THEN t
        ELSE LET mutex_ref == Len(t.mutex_manager.mutexes) IN
             link_place_to_mutex(add_mutex(t), return_value, mutex_ref))

\* translate_function_side_effects, branch Mutex::lock; the guard returned by
\* the call is linked to the same mutex
translate_side_effects_lock(translator, self_ref, return_value, transition_function_call) ==
    ByValue(translator, LAMBDA t :
        IF t.panic # NoPanic THEN t
        ELSE LET mutex_ref == get_linked_mutex(Memory(t), self_ref) IN
             IF ~IsSome(mutex_ref) THEN Panic(t, "BUG: The place should be linked to a mutex")
             ELSE link_place_to_lock_guard(
                    add_lock_guard(t, Unwrap(mutex_ref), transition_function_call),
                    return_value, Unwrap(mutex_ref)))

----------------------------------------------------------------------------
(* ArcManager: the side effects of std::sync::Arc on the memory of the caller. *)
(* is_mutex and is_reference_to_arc_with_mutex are the answers of the type    *)
(* predicates on the first argument.                                          *)

STD_SYNC_ARC_NEW == <<"std", "sync", "Arc", "new">>
STD_OPS_DEREF_DEREF == <<"std", "ops", "Deref", "deref">>
STD_CLONE_CLONE_CLONE == <<"std", "clone", "Clone", "clone">>

\* naming::arc
arc_function_transition_label(function_name, index) ==
    sanitize(function_name) \o "_" \o ToString(index)

\* ArcManager::new; the manager is handed to its methods next to the translator,
\* whose net they write to
ArcManager_new == [arc_counter |-> 0, deref_counter |-> 0, clone_counter |-> 0]

ArcManager_translate_call_new(arc_manager, translator, start_place, end_place) ==
    ByValue(translator, LAMBDA t :
        LET index == arc_manager.arc_counter
            transition_label == arc_function_transition_label(STD_SYNC_ARC_NEW, index)
        IN  [arc_manager |-> [arc_manager EXCEPT !.arc_counter = @ + 1],
             translator |-> call_foreign_function(t, start_place, end_place, None,
                                                  transition_label)])

ArcManager_translate_call_deref(arc_manager, translator, start_place, end_place, cleanup_place) ==
    ByValue(translator, LAMBDA t :
        LET index == arc_manager.deref_counter
            transition_label == arc_function_transition_label(STD_OPS_DEREF_DEREF, index)
        IN  [arc_manager |-> [arc_manager EXCEPT !.deref_counter = @ + 1],
             translator |-> call_foreign_function(t, start_place, end_place, cleanup_place,
                                                  transition_label)])

\* Faulty variant of translate_call_clone: the call is counted as a deref
ArcManager_translate_call_clone_counts_deref(arc_manager, translator, start_place, end_place, cleanup_place) ==
    ByValue(translator, LAMBDA t :
        LET index == arc_manager.clone_counter
            transition_label == arc_function_transition_label(STD_CLONE_CLONE_CLONE, index)
        IN  [arc_manager |-> [arc_manager EXCEPT !.deref_counter = @ + 1],
             translator |-> call_foreign_function(t, start_place, end_place, cleanup_place,
                                                  transition_label)])

ArcManager_translate_call_clone(arc_manager, translator, start_place, end_place, cleanup_place) ==
    ByValue(translator, LAMBDA t :
        LET index == arc_manager.clone_counter
            transition_label == arc_function_transition_label(STD_CLONE_CLONE_CLONE, index)
        IN  [arc_manager |-> [arc_manager EXCEPT !.clone_counter = @ + 1],
             translator |-> call_foreign_function(t, start_place, end_place, cleanup_place,
                                                  transition_label)])

\* Faulty variant of translate_side_effects_new: the Arc gets a mutex of its own
ArcManager_translate_side_effects_new_mutex(translator, first_argument, return_value, is_mutex) ==
    ByValue(translator, LAMBDA t :
        IF t.panic # NoPanic THEN t
        ELSE IF is_mutex
             THEN link_place_to_mutex(add_mutex(t), return_value, Len(t.mutex_manager.mutexes))
        ELSE t)

ArcManager_translate_side_effects_new(translator, first_argument, return_value, is_mutex) ==
    ByValue(translator, LAMBDA t :
        IF is_mutex THEN link_place_to_same_mutex(t, return_value, first_argument) ELSE t)

ArcManager_translate_side_effects_deref(translator, first_argument, return_value, is_reference_to_arc_with_mutex) ==
    ByValue(translator, LAMBDA t :
        IF is_reference_to_arc_with_mutex
        THEN link_place_to_same_mutex(t, return_value, first_argument) ELSE t)

ArcManager_translate_side_effects_clone(translator, first_argument, return_value, is_reference_to_arc_with_mutex) ==
    ByValue(translator, LAMBDA t :
        IF is_reference_to_arc_with_mutex
        THEN link_place_to_same_mutex(t, return_value, first_argument) ELSE t)

----------------------------------------------------------------------------
(* ThreadManager and Thread *)

ThreadManager_new == [threads |-> <<>>, spawn_counter |-> 0, join_counter |-> 0]

Thread_new(spawn_transition, thread_function_def_id, mutexes, index) ==
    [spawn_transition |-> spawn_transition,
     thread_function_def_id |-> thread_function_def_id,
     mutexes |-> mutexes,
     join_transition |-> None,
     index |-> index]

\* the labels of the transitions translate_call_spawn / translate_call_join return
translate_call_spawn_label(t) ==
    function_transition_label(STD_THREAD_SPAWN, t.thread_manager.spawn_counter)
translate_call_join_label(t) ==
    function_transition_label(STD_THREAD_JOIN, t.thread_manager.join_counter)

translate_call_spawn(translator, start_place, end_place) ==
    ByValue(translator, LAMBDA t :
        LET t1 == call_foreign_function(t, start_place, end_place, None,
                                        translate_call_spawn_label(t)) IN
        IF t1.panic # NoPanic THEN t1
        ELSE [t1 EXCEPT !.thread_manager.spawn_counter = @ + 1])

translate_call_join(translator, start_place, end_place) ==
    ByValue(translator, LAMBDA t :
        LET t1 == call_foreign_function(t, start_place, end_place, None,
                                        translate_call_join_label(t)) IN
        IF t1.panic # NoPanic THEN t1
        ELSE [t1 EXCEPT !.thread_manager.join_counter = @ + 1])

\* returns ThreadRef(index): the index is threads.len() before the push_front
add_thread(translator, spawn_transition, thread_function_def_id, mutexes) ==
    ByValue(translator, LAMBDA t :
        IF t.panic # NoPanic THEN t
        ELSE LET index == Len(t.thread_manager.threads) IN
             [t EXCEPT !.thread_manager.threads =
                <<Thread_new(spawn_transition, thread_function_def_id, mutexes, index)>> \o @])

\* VecDeque::get_mut(thread_ref.0): position 0 is the front of the queue
set_join_transition(translator, thread_ref, join_transition) ==
    ByValue(translator, LAMBDA t :
        IF t.panic # NoPanic THEN t
        ELSE IF thread_ref + 1 > Len(t.thread_manager.threads)
             THEN Panic(t, "BUG: The thread reference should be a valid index for the vector of threads")
        ELSE [t EXCEPT !.thread_manager.threads[thread_ref + 1].join_transition =
                Some(join_transition)])

\* mutexes: the vector find_mutexes_linked_to_place returned for the closure
translate_side_effects_spawn(translator, mutexes, thread_function_def_id, return_value, transition_function_call) ==
    ByValue(translator, LAMBDA t :
        IF t.panic # NoPanic THEN t
        ELSE LET thread_ref == Len(t.thread_manager.threads) IN
             link_place_to_join_handle(
                add_thread(t, transition_function_call, thread_function_def_id, mutexes),
                return_value, thread_ref))

translate_side_effects_join(translator, self_ref, transition_function_call) ==
    ByValue(translator, LAMBDA t :
        IF t.panic # NoPanic THEN t
        ELSE LET thread_ref == get_linked_join_handle(Memory(t), self_ref) IN
             IF ~IsSome(thread_ref)
             THEN Panic(t, "BUG: The place should be linked to a join handle")
             ELSE set_join_transition(t, Unwrap(thread_ref), transition_function_call))

\* VecDeque::pop_front: the thread returned, and the manager afterwards
pop_thread_value(t) == Head(t.thread_manager.threads)
\* Faulty variant of pop_thread: the pop empties the queue
pop_thread_clear(t) == [t EXCEPT !.thread_manager.threads = <<>>]
pop_thread(t) == [t EXCEPT !.thread_manager.threads = Tail(@)]

\* Thread::move_mutexes: each place of the debug info that holds a mutex is
\* linked, in the memory of the function on top, to the handle that
\* Vec::pop takes from the end of the vector of the thread
RECURSIVE move_mutexes_to(_, _, _)
move_mutexes_to(translator, mutexes, places) ==
    ByValue(translator, LAMBDA t :
        IF t.panic # NoPanic \/ places = <<>> THEN t
        ELSE IF mutexes = <<>>
             THEN Panic(t, "BUG: The thread function receives more mutexes than the ones detected")
        ELSE move_mutexes_to(link_place_to_mutex(t, Head(places), mutexes[Len(mutexes)]),
                             SubSeq(mutexes, 1, Len(mutexes) - 1), Tail(places)))

\* Faulty variant of prepare_for_translation: the end place is left unconnected
prepare_for_translation_no_join(t, thread) ==
    LET thread_start_place == start_place_label(thread.index)
        thread_end_place == end_place_label(thread.index)
        t1 == add_place(t, thread_start_place)
        t2 == add_place(t1, thread_end_place)
    IN  add_arc_transition_place(t2, thread.spawn_transition, thread_start_place)

\* Faulty variant of prepare_for_translation: the places are numbered by the
\* number of threads still pending, which is the index of the thread only when
\* the front of the queue is dequeued
prepare_for_translation_by_position(t, thread) ==
    LET position == Len(t.thread_manager.threads)
        thread_start_place == start_place_label(position)
        thread_end_place == end_place_label(position)
        t1 == add_place(t, thread_start_place)
        t2 == add_place(t1, thread_end_place)
        t3 == add_arc_transition_place(t2, thread.spawn_transition, thread_start_place)
    IN  IF IsSome(thread.join_transition)
        THEN add_arc_place_transition(t3, thread_end_place, Unwrap(thread.join_transition))
        ELSE t3

\* Thread::prepare_for_translation
prepare_for_translation(t, thread) ==
    LET thread_start_place == start_place_label(thread.index)
        thread_end_place == end_place_label(thread.index)
        t1 == add_place(t, thread_start_place)
        t2 == add_place(t1, thread_end_place)
        t3 == add_arc_transition_place(t2, thread.spawn_transition, thread_start_place)
    IN  IF IsSome(thread.join_transition)
        THEN add_arc_place_transition(t3, thread_end_place, Unwrap(thread.join_transition))
        ELSE t3

----------------------------------------------------------------------------
(* The translator *)

ERR_NO_MAIN_FUNCTION_FOUND == "ERR_NO_MAIN_FUNCTION_FOUND"

\* Faulty variant of Translator::new: the token is put on PROGRAM_END
Translator_new_token_on_end ==
    LET t0 == [net |-> EmptyNet, call_stack |-> <<>>, mutex_manager |-> MutexManager_new,
               thread_manager |-> ThreadManager_new, panic |-> NoPanic]
        t1 == add_place(t0, PROGRAM_PANIC)
        t2 == add_place(t1, PROGRAM_END)
        t3 == add_place(t2, PROGRAM_START)
    IN  add_token(t3, PROGRAM_END, 1)

\* Faulty variant of Translator::new: PROGRAM_START is given two tokens
Translator_new_two_tokens ==
    LET t0 == [net |-> EmptyNet, call_stack |-> <<>>, mutex_manager |-> MutexManager_new,
               thread_manager |-> ThreadManager_new, panic |-> NoPanic]
        t1 == add_place(t0, PROGRAM_PANIC)
        t2 == add_place(t1, PROGRAM_END)
        t3 == add_place(t2, PROGRAM_START)
    IN  add_token(t3, PROGRAM_START, 2)

\* Translator::new
Translator_new ==
    LET t0 == [net |-> EmptyNet, call_stack |-> <<>>, mutex_manager |-> MutexManager_new,
               thread_manager |-> ThreadManager_new, panic |-> NoPanic]
        t1 == add_place(t0, PROGRAM_PANIC)
        t2 == add_place(t1, PROGRAM_END)
        t3 == add_place(t2, PROGRAM_START)
    IN  add_token(t3, PROGRAM_START, 1)

Cur == [net |-> net, call_stack |-> call_stack, mutex_manager |-> mutex_manager,
        thread_manager |-> thread_manager, panic |-> panic]

Commit(translator) ==
    \E t \in {translator} :
        /\ net' = t.net
        /\ call_stack' = t.call_stack
        /\ mutex_manager' = t.mutex_manager
        /\ thread_manager' = t.thread_manager
        /\ panic' = t.panic

Body(frame) == program.functions[frame.def_id]
Walking ==
    /\ pc \in {"translate_main", "translate_threads"}
    /\ panic = NoPanic
    /\ call_stack # <<>>
AtTerminator ==
    /\ Walking
    /\ Top(Cur).at_terminator
Terminator == Body(Top(Cur))[Top(Cur).block + 1].terminator

\* Faulty variant of prepare_function_call: the return target is looked at
\* before the name of the callee
FunctionCallKind_target_first(term) ==
    IF ~IsSome(term.target) THEN "Diverging"
    ELSE IF is_panic_function(term.func) THEN "Panic"
    ELSE IF term.func \in program.foreign THEN "Foreign"
    ELSE IF is_mutex_new(term.func) THEN "MutexNew"
    ELSE IF is_mutex_lock(term.func) THEN "MutexLock"
    ELSE IF is_thread_spawn(term.func) THEN "ThreadSpawn"
    ELSE IF is_thread_join(term.func) THEN "ThreadJoin"
    ELSE "MirFunction"

\* prepare_function_call: the class of the call, in the order the code decides it
FunctionCallKind(term) ==
    IF is_panic_function(term.func) THEN "Panic"
    ELSE IF ~IsSome(term.target) THEN "Diverging"
    ELSE IF term.func \in program.foreign THEN "Foreign"
    ELSE IF is_mutex_new(term.func) THEN "MutexNew"
    ELSE IF is_mutex_lock(term.func) THEN "MutexLock"
    ELSE IF is_thread_spawn(term.func) THEN "ThreadSpawn"
    ELSE IF is_thread_join(term.func) THEN "ThreadJoin"
    ELSE "MirFunction"

CallOf(kind) ==
    /\ AtTerminator
    /\ Terminator.kind = "Call"
    /\ FunctionCallKind(Terminator) = kind

\* prepare_function_call, for the calls that have a return block
PrepareCall(t, term) == get_place_refs_for_function_call(t, Unwrap(term.target), term.cleanup)

----------------------------------------------------------------------------
(* Input programs *)

MAIN == <<"main">>
FOREIGN_F == <<"f">>
FOREIGN_G == <<"g">>
FUNCTION_H == <<"h">>
THREAD_1 == <<"t1">>
THREAD_2 == <<"t2">>
THREAD_3 == <<"t3">>
THREAD_4 == <<"t4">>
THREAD_5 == <<"t5">>
THREAD_6 == <<"t6">>
ABORT == <<"std", "process", "abort">>
\* a foreign function whose name ends in a word the labels use
FOREIGN_F_DIVERGING == <<"f_DIVERGING">>

Block(statement, terminator) == [statement |-> statement, terminator |-> terminator]
Call(func, args, destination, target, cleanup, closure) ==
    [kind |-> "Call", func |-> func, args |-> args, destination |-> destination,
     target |-> target, cleanup |-> cleanup, closure |-> closure]
Return == [kind |-> "Return"]
Resume == [kind |-> "Resume"]
Goto(target) == [kind |-> "Goto", target |-> target]
SwitchInt(targets) == [kind |-> "SwitchInt", targets |-> targets]
Drop(place, target) == [kind |-> "Drop", place |-> place, target |-> target]
\* place = &rvalue (or a copy, or a move) of a value that holds a mutex
Assign(place, rvalue) == [kind |-> "Assign", place |-> place, rvalue |-> rvalue]

\* One call site of a straight-line entry function
Op(kind, statement, func, args, destination, returns, unwinds, closure) ==
    [kind |-> kind, statement |-> statement, func |-> func, args |-> args,
     destination |-> destination, returns |-> returns, unwinds |-> unwinds,
     closure |-> closure]

OpForeignF == Op("Call", None, FOREIGN_F, <<>>, Place(9), TRUE, FALSE, None)
OpForeignG == Op("Call", None, FOREIGN_G, <<>>, Place(9), TRUE, TRUE, None)
OpMir == Op("Call", None, FUNCTION_H, <<>>, Place(9), TRUE, FALSE, None)
OpPanic == Op("Call", None, CORE_PANICKING_PANIC, <<>>, Place(9), FALSE, FALSE, None)
OpDiverging == Op("Call", None, ABORT, <<>>, Place(9), FALSE, FALSE, None)

OpNewA == Op("Call", None, STD_SYNC_MUTEX_NEW, <<>>, Field(5, 0), TRUE, FALSE, None)
OpNewB == Op("Call", None, STD_SYNC_MUTEX_NEW, <<>>, Field(5, 1), TRUE, FALSE, None)
OpLockA == Op("Call", None, STD_SYNC_MUTEX_LOCK, <<Field(5, 0)>>, Place(3), TRUE, TRUE, None)
OpLockAlias ==
    Op("Call", Some(Assign(Place(4), Field(5, 0))), STD_SYNC_MUTEX_LOCK, <<Place(4)>>,
       Place(3), TRUE, FALSE, None)
OpDropGuard == Op("Drop", None, <<>>, <<Place(3)>>, Place(9), TRUE, FALSE, None)
OpSpawn1 == Op("Call", None, STD_THREAD_SPAWN, <<Place(5)>>, Place(6), TRUE, FALSE, Some(THREAD_1))
OpSpawn2 == Op("Call", None, STD_THREAD_SPAWN, <<Place(5)>>, Place(7), TRUE, FALSE, Some(THREAD_2))
OpSpawn3 == Op("Call", None, STD_THREAD_SPAWN, <<Place(5)>>, Place(8), TRUE, FALSE, Some(THREAD_3))
OpSpawn4 == Op("Call", None, STD_THREAD_SPAWN, <<Place(5)>>, Place(6), TRUE, FALSE, Some(THREAD_4))
OpSpawn5 == Op("Call", None, STD_THREAD_SPAWN, <<Place(5)>>, Place(6), TRUE, FALSE, Some(THREAD_5))
OpSpawn6 == Op("Call", None, STD_THREAD_SPAWN, <<Place(5)>>, Place(7), TRUE, FALSE, Some(THREAD_6))
OpJoin1 == Op("Call", None, STD_THREAD_JOIN, <<Place(6)>>, Place(9), TRUE, FALSE, None)
OpJoin2 == Op("Call", None, STD_THREAD_JOIN, <<Place(7)>>, Place(9), TRUE, FALSE, None)

\* Calls whose class is decided by more than the callee's name: an ordinary call
\* with a cleanup block, a panic call that names a return block and a cleanup
\* block, and calls of the primitives that have no return block
OpMirUnwind == Op("Call", None, FUNCTION_H, <<>>, Place(9), TRUE, TRUE, None)
OpPanicReturns == Op("Call", None, CORE_PANICKING_PANIC, <<>>, Place(9), TRUE, TRUE, None)
OpNewDiverging == Op("Call", None, STD_SYNC_MUTEX_NEW, <<>>, Field(5, 0), FALSE, TRUE, None)
OpLockDiverging ==
    Op("Call", None, STD_SYNC_MUTEX_LOCK, <<Field(5, 0)>>, Place(3), FALSE, TRUE, None)
OpSpawnDiverging ==
    Op("Call", None, STD_THREAD_SPAWN, <<Place(5)>>, Place(6), FALSE, FALSE, Some(THREAD_1))
OpJoinDiverging == Op("Call", None, STD_THREAD_JOIN, <<Place(6)>>, Place(9), FALSE, FALSE, None)
OpForeignFDiverging == Op("Call", None, FOREIGN_F_DIVERGING, <<>>, Place(9), TRUE, FALSE, None)
OpDivergingF == Op("Call", None, FOREIGN_F, <<>>, Place(9), FALSE, FALSE, None)

CallOps == {OpForeignF, OpForeignG, OpMir, OpPanic, OpDiverging}
MutexOps == {OpNewA, OpNewB, OpLockA, OpLockAlias, OpDropGuard, OpSpawn4}
ThreadOps == {OpSpawn1, OpSpawn2, OpSpawn3, OpJoin1, OpJoin2}

\* The block of call site i (block i - 1) of n: it returns to block i, the
\* function returns in block n and block n + 1 is the cleanup block
OpBlock(op, i, n) ==
    Block(op.statement,
          IF op.kind = "Drop" THEN Drop(op.args[1], i)
          ELSE Call(op.func, op.args, op.destination,
                    IF op.returns THEN Some(i) ELSE None,
                    IF op.unwinds THEN Some(n + 1) ELSE None,
                    op.closure))

StraightLine(ops) ==
    LET n == Len(ops)
        blocks == IF \E i \in 1..n : ops[i].unwinds THEN n + 2 ELSE n + 1
    IN  [i \in 1..blocks |->
            IF i <= n THEN OpBlock(ops[i], i, n)
            ELSE IF i = n + 1 THEN Block(None, Return)
            ELSE Block(None, Resume)]

\* b0: goto b1; b1: switch b2 | b3; b2: f() -> b1; b3: return
LoopBody ==
    <<Block(None, Goto(1)),
      Block(None, SwitchInt(<<2, 3>>)),
      Block(None, Call(FOREIGN_F, <<>>, Place(9), Some(1), None, None)),
      Block(None, Return)>>

\* b0: return
ReturnBody == <<Block(None, Return)>>

\* t4 is a closure that captures two mutexes, _1.0 and _1.1, and locks the first;
\* t5 and t6 create a mutex of their own and lock it
Library ==
    [name \in {FUNCTION_H, THREAD_1, THREAD_2, THREAD_3, THREAD_4, THREAD_5, THREAD_6} |->
        IF name = THREAD_3
        THEN <<Block(None, Call(STD_THREAD_SPAWN, <<Place(5)>>, Place(6), Some(1), None,
                                Some(THREAD_1))),
               Block(None, Return)>>
        ELSE IF name = THREAD_4
        THEN <<Block(None, Call(STD_SYNC_MUTEX_LOCK, <<Field(1, 0)>>, Place(3), Some(1), None,
                                None)),
               Block(None, Return)>>
        ELSE IF name \in {THREAD_5, THREAD_6}
        THEN <<Block(None, Call(STD_SYNC_MUTEX_NEW, <<>>, Place(2), Some(1), None, None)),
               Block(None, Call(STD_SYNC_MUTEX_LOCK, <<Place(2)>>, Place(3), Some(2), None,
                                None)),
               Block(None, Return)>>
        ELSE <<Block(None, Return)>>]

\* var_debug_info of a function: the places _1.X whose type holds a mutex, in
\* the order of the declarations
VarDebugInfo(function_def_id) ==
    IF function_def_id = THREAD_4 THEN <<Field(1, 0), Field(1, 1)>> ELSE <<>>

ProgramOf(main_body) ==
    [has_entry |-> TRUE,
     foreign |-> {FOREIGN_F, FOREIGN_G, FOREIGN_F_DIVERGING, ABORT},
     functions |-> [name \in DOMAIN Library \cup {MAIN} |->
                        IF name = MAIN THEN main_body ELSE Library[name]]]

NoEntryProgram ==
    [has_entry |-> FALSE, foreign |-> {FOREIGN_F, FOREIGN_G, FOREIGN_F_DIVERGING, ABORT}, functions |-> Library]

\* the sequences of at most max call sites
OpSequences(ops, max) == UNION {[1..n -> ops] : n \in 1..max}

ProgramsUpTo(max) ==
    {ProgramOf(StraightLine(ops)) :
        ops \in OpSequences(CallOps, max) \cup OpSequences(MutexOps, max)
                 \cup OpSequences(ThreadOps, max)}
    \cup {ProgramOf(LoopBody), ProgramOf(ReturnBody), NoEntryProgram}

Programs == ProgramsUpTo(MaxCalls)

----------------------------------------------------------------------------
(* Actions: Translator::run *)

InitWith(programs) ==
    /\ program \in programs
    /\ pc = "new"
    /\ err_str = None
    /\ net = Translator_new.net
    /\ call_stack = Translator_new.call_stack
    /\ mutex_manager = Translator_new.mutex_manager
    /\ thread_manager = Translator_new.thread_manager
    /\ panic = Translator_new.panic
    /\ drained = <<>>
    /\ results = <<>>
    /\ marking = <<>>
    /\ fired = <<>>

Init == InitWith(Programs)

\* run, when the program has no entry function
RunNoMain ==
    /\ pc = "new"
    /\ ~program.has_entry
    /\ err_str' = Some(ERR_NO_MAIN_FUNCTION_FOUND)
    /\ pc' = "failed"
    /\ UNCHANGED <<program, net, call_stack, mutex_manager, thread_manager, panic,
                   drained, results, marking, fired>>

\* run, up to the push of the entry function
\* Faulty variant of run: the entry function is handed the end place as its start place
RunMainFromEndPlace ==
    /\ pc = "new"
    /\ program.has_entry
    /\ Commit(push_function_to_call_stack(Cur, MAIN, PROGRAM_END, PROGRAM_START))
    /\ pc' = "translate_main"
    /\ UNCHANGED <<program, err_str, drained, results, marking, fired>>

RunMain ==
    /\ pc = "new"
    /\ program.has_entry
    /\ Commit(push_function_to_call_stack(Cur, MAIN, PROGRAM_START, PROGRAM_END))
    /\ pc' = "translate_main"
    /\ UNCHANGED <<program, err_str, drained, results, marking, fired>>

Step(t) ==
    /\ Commit(t)
    /\ UNCHANGED <<program, pc, err_str, drained, results, marking, fired>>

\* the translation of the statement of the block on top (at most one per block)
visit_statement(translator, statement) ==
    ByValue(translator, LAMBDA t :
        IF t.panic # NoPanic THEN t
        ELSE LET frame == Top(t)
                 label == statement_transition_label(frame.name, frame.block, 0)
                 end_place == basic_block_end_place_label(frame.name, frame.block)
                 t1 == add_transition(t, label)
                 t2 == add_place(t1, end_place)
                 t3 == add_arc_place_transition(t2, frame.active, label)
                 t4 == add_arc_transition_place(t3, label, end_place)
                 t5 == link_place_to_same_mutex(t4, statement.place, statement.rvalue)
             IN  IF t5.panic # NoPanic THEN t5
                 ELSE [t5 EXCEPT !.call_stack[Len(t.call_stack)].active = end_place])

visit_basic_block_data(translator) ==
    ByValue(translator, LAMBDA t :
        LET frame == Top(t)
            block == Body(frame)[frame.block + 1]
            t1 == get_or_add_basic_block(t, frame.block)
            t2 == IF t1.panic # NoPanic THEN t1
                  ELSE [t1 EXCEPT !.call_stack[Len(t.call_stack)] =
                            [@ EXCEPT !.active = BlockPlace(frame, frame.block),
                                      !.at_terminator = TRUE]]
        IN  IF IsSome(block.statement) THEN visit_statement(t2, Unwrap(block.statement)) ELSE t2)

\* The visitor enters the next block of the function on top
VisitBasicBlock ==
    /\ Walking
    /\ ~Top(Cur).at_terminator
    /\ Top(Cur).block < Len(Body(Top(Cur)))
    /\ Step(visit_basic_block_data(Cur))

goto(translator, target) ==
    ByValue(translator, LAMBDA t :
        LET frame == Top(t)
            label == goto_transition_label(frame.name, frame.block)
            t1 == get_or_add_basic_block(t, target)
            t2 == add_transition(t1, label)
            t3 == add_arc_place_transition(t2, frame.active, label)
        IN  add_arc_transition_place(t3, label, BlockPlace(frame, target)))

TerminatorGoto ==
    /\ AtTerminator
    /\ Terminator.kind = "Goto"
    /\ Step(NextBlock(goto(Cur, Terminator.target)))

\* Faulty variant of switch_int: a transition for the first successor only
switch_int_first_target(translator, targets) ==
    ByValue(translator, LAMBDA t :
        LET frame == Top(t)
            target == Head(targets)
            label == switch_int_transition_label(frame.name, target)
            t1 == get_or_add_basic_block(t, target)
            t2 == add_transition(t1, label)
            t3 == add_arc_place_transition(t2, frame.active, label)
        IN  add_arc_transition_place(t3, label, BlockPlace(frame, target)))

RECURSIVE switch_int(_, _)
switch_int(translator, targets) ==
    ByValue(translator, LAMBDA t :
        IF targets = <<>> THEN t
        ELSE LET frame == Top(t)
                 target == Head(targets)
                 label == switch_int_transition_label(frame.name, target)
                 t1 == get_or_add_basic_block(t, target)
                 t2 == add_transition(t1, label)
                 t3 == add_arc_place_transition(t2, frame.active, label)
                 t4 == add_arc_transition_place(t3, label, BlockPlace(frame, target))
             IN  switch_int(t4, Tail(targets)))

TerminatorSwitchInt ==
    /\ AtTerminator
    /\ Terminator.kind = "SwitchInt"
    /\ Step(NextBlock(switch_int(Cur, Terminator.targets)))

return(translator) ==
    ByValue(translator, LAMBDA t :
        LET frame == Top(t)
            label == return_transition_label(frame.name)
            t1 == add_transition(t, label)
            t2 == add_arc_place_transition(t1, frame.active, label)
        IN  add_arc_transition_place(t2, label, frame.end_place))

TerminatorReturn ==
    /\ AtTerminator
    /\ Terminator.kind = "Return"
    /\ Step(NextBlock(return(Cur)))

unwind(translator) ==
    ByValue(translator, LAMBDA t :
        LET frame == Top(t)
            label == unwind_transition_label(frame.name, frame.block)
            t1 == add_transition(t, label)
            t2 == add_arc_place_transition(t1, frame.active, label)
        IN  add_arc_transition_place(t2, label, PROGRAM_PANIC))

TerminatorResume ==
    /\ AtTerminator
    /\ Terminator.kind = "Resume"
    /\ Step(NextBlock(unwind(Cur)))

\* the drop of a lock guard unlocks its mutex
drop(translator, place, target) ==
    ByValue(translator, LAMBDA t :
        LET frame == Top(t)
            label == drop_transition_label(frame.name, frame.block)
            t1 == get_or_add_basic_block(t, target)
            t2 == add_transition(t1, label)
            t3 == add_arc_place_transition(t2, frame.active, label)
            t4 == add_arc_transition_place(t3, label, BlockPlace(frame, target))
        IN  IF t4.panic = NoPanic /\ is_linked_to_lock_guard(frame.memory, place)
            THEN add_unlock_guard(t4, Unwrap(get_linked_lock_guard(frame.memory, place)), label)
            ELSE t4)

TerminatorDrop ==
    /\ AtTerminator
    /\ Terminator.kind = "Drop"
    /\ Step(NextBlock(drop(Cur, Terminator.place, Terminator.target)))

----------------------------------------------------------------------------
(* Actions: call_function, one per FunctionCall variant *)

CallDiverging ==
    /\ CallOf("Diverging")
    /\ Step(NextBlock(call_diverging_function(
            Cur, get_start_place_for_function_call(Cur), Terminator.func)))

CallPanic ==
    /\ CallOf("Panic")
    /\ Step(NextBlock(call_panic_function(
            Cur, get_start_place_for_function_call(Cur), PROGRAM_PANIC, Top(Cur).name)))

\* call_foreign with the start place and the end place of the call exchanged
call_foreign_swapped(translator, term) ==
    ByValue(translator, LAMBDA t :
        LET t1 == PrepareCall(t, term) IN
        call_foreign_function(t1, EndPlaceOfCall(t, Unwrap(term.target)),
                              get_start_place_for_function_call(t),
                              CleanupPlaceOfCall(t, term.cleanup),
                              foreign_call_transition_label(term.func)))

\* call_foreign without the cleanup place of the call
call_foreign_no_cleanup(translator, term) ==
    ByValue(translator, LAMBDA t :
        LET t1 == PrepareCall(t, term) IN
        call_foreign_function(t1, get_start_place_for_function_call(t),
                              EndPlaceOfCall(t, Unwrap(term.target)),
                              None,
                              foreign_call_transition_label(term.func)))

call_foreign(translator, term) ==
    ByValue(translator, LAMBDA t :
        LET t1 == PrepareCall(t, term) IN
        call_foreign_function(t1, get_start_place_for_function_call(t),
                              EndPlaceOfCall(t, Unwrap(term.target)),
                              CleanupPlaceOfCall(t, term.cleanup),
                              foreign_call_transition_label(term.func)))

CallForeign ==
    /\ CallOf("Foreign")
    /\ Step(NextBlock(call_foreign(Cur, Terminator)))

\* Faulty variant of call_function, MirFunction: the callee is given the end
\* place of the caller as its end place
call_mir_function_to_end_of_caller(translator, term) ==
    ByValue(translator, LAMBDA t :
        LET t1 == PrepareCall(t, term) IN
        push_function_to_call_stack(NextBlock(t1), term.func,
                                    get_start_place_for_function_call(t),
                                    Top(t).end_place))

\* the caller resumes at its next block when the callee is popped
call_mir_function(translator, term) ==
    ByValue(translator, LAMBDA t :
        LET t1 == PrepareCall(t, term) IN
        push_function_to_call_stack(NextBlock(t1), term.func,
                                    get_start_place_for_function_call(t),
                                    EndPlaceOfCall(t, Unwrap(term.target))))

CallMirFunction ==
    /\ CallOf("MirFunction")
    /\ Step(call_mir_function(Cur, Terminator))

call_mutex_new(translator, term) ==
    ByValue(translator, LAMBDA t :
        LET t1 == PrepareCall(t, term)
            t2 == translate_function_call(t1, STD_SYNC_MUTEX_NEW,
                                          get_start_place_for_function_call(t),
                                          EndPlaceOfCall(t, Unwrap(term.target)),
                                          CleanupPlaceOfCall(t, term.cleanup))
        IN  translate_side_effects_new(t2, term.destination))

CallMutexNew ==
    /\ CallOf("MutexNew")
    /\ Step(NextBlock(call_mutex_new(Cur, Terminator)))

call_mutex_lock(translator, term) ==
    ByValue(translator, LAMBDA t :
        LET t1 == PrepareCall(t, term)
            transition_function_call == translate_function_call_label(t1, STD_SYNC_MUTEX_LOCK)
            t2 == translate_function_call(t1, STD_SYNC_MUTEX_LOCK,
                                          get_start_place_for_function_call(t),
                                          EndPlaceOfCall(t, Unwrap(term.target)),
                                          CleanupPlaceOfCall(t, term.cleanup))
        IN  translate_side_effects_lock(t2, term.args[1], term.destination,
                                        transition_function_call))

CallMutexLock ==
    /\ CallOf("MutexLock")
    /\ Step(NextBlock(call_mutex_lock(Cur, Terminator)))

call_thread_spawn(translator, term, mutexes) ==
    ByValue(translator, LAMBDA t :
        LET t1 == PrepareCall(t, term)
            transition_function_call == translate_call_spawn_label(t1)
            t2 == translate_call_spawn(t1, get_start_place_for_function_call(t),
                                       EndPlaceOfCall(t, Unwrap(term.target)))
        IN  translate_side_effects_spawn(t2, mutexes, Unwrap(term.closure), term.destination,
                                         transition_function_call))

CallThreadSpawn ==
    /\ CallOf("ThreadSpawn")
    /\ \E mutexes \in find_mutexes_linked_to_place(Memory(Cur), Terminator.args[1]) :
            Step(NextBlock(call_thread_spawn(Cur, Terminator, mutexes)))

\* Faulty variant of call_thread_join: the join transition is not recorded on the thread
call_thread_join_no_side_effects(translator, term) ==
    ByValue(translator, LAMBDA t :
        LET t1 == PrepareCall(t, term) IN
        translate_call_join(t1, get_start_place_for_function_call(t),
                            EndPlaceOfCall(t, Unwrap(term.target))))

call_thread_join(translator, term) ==
    ByValue(translator, LAMBDA t :
        LET t1 == PrepareCall(t, term)
            transition_function_call == translate_call_join_label(t1)
            t2 == translate_call_join(t1, get_start_place_for_function_call(t),
                                      EndPlaceOfCall(t, Unwrap(term.target)))
        IN  translate_side_effects_join(t2, term.args[1], transition_function_call))

CallThreadJoin ==
    /\ CallOf("ThreadJoin")
    /\ Step(NextBlock(call_thread_join(Cur, Terminator)))

\* Faulty variant of translate_top_call_stack: the finished function is not popped
FinishFunctionNoPop ==
    /\ Walking
    /\ ~Top(Cur).at_terminator
    /\ Top(Cur).block = Len(Body(Top(Cur)))
    /\ UNCHANGED vars

\* translate_top_call_stack, after visit_body: the pop of the finished function
FinishFunction ==
    /\ Walking
    /\ ~Top(Cur).at_terminator
    /\ Top(Cur).block = Len(Body(Top(Cur)))
    /\ call_stack' = SubSeq(call_stack, 1, Len(call_stack) - 1)
    /\ pc' = IF Len(call_stack) = 1 THEN "translate_threads" ELSE pc
    /\ UNCHANGED <<program, err_str, net, mutex_manager, thread_manager, panic,
                   drained, results, marking, fired>>

move_mutexes(translator, thread) ==
    move_mutexes_to(translator, thread.mutexes, VarDebugInfo(thread.thread_function_def_id))

\* translate_threads: one turn of the loop
translate_thread(translator) ==
    ByValue(translator, LAMBDA t :
        LET thread == pop_thread_value(t)
            t1 == prepare_for_translation(pop_thread(t), thread)
            t2 == push_function_to_call_stack(t1, thread.thread_function_def_id,
                                              start_place_label(thread.index),
                                              end_place_label(thread.index))
        IN  move_mutexes(t2, thread))

\* Faulty variant of translate_threads: a pending thread is translated as soon as
\* the visitor stands between two blocks, whatever the call stack holds
TranslateThreadEager ==
    /\ pc \in {"translate_main", "translate_threads"}
    /\ panic = NoPanic
    /\ call_stack # <<>> => ~Top(Cur).at_terminator
    /\ thread_manager.threads # <<>>
    /\ Commit(translate_thread(Cur))
    /\ drained' = Append(drained, pop_thread_value(Cur))
    /\ UNCHANGED <<program, pc, err_str, results, marking, fired>>

TranslateThread ==
    /\ pc = "translate_threads"
    /\ panic = NoPanic
    /\ call_stack = <<>>
    /\ thread_manager.threads # <<>>
    /\ Commit(translate_thread(Cur))
    /\ drained' = Append(drained, pop_thread_value(Cur))
    /\ UNCHANGED <<program, pc, err_str, results, marking, fired>>

\* translate_threads: pop_thread returns None, run returns
FinishRun ==
    /\ pc = "translate_threads"
    /\ panic = NoPanic
    /\ call_stack = <<>>
    /\ thread_manager.threads = <<>>
    /\ pc' = "done"
    /\ UNCHANGED <<program, err_str, net, call_stack, mutex_manager, thread_manager,
                   panic, drained, results, marking, fired>>

----------------------------------------------------------------------------
(* Actions: get_result, and the token game on the net it returned *)

InitialMarking(n) == [p \in n.places |-> TokensOf(n, p)]

\* Faulty variant of get_result: the net is returned whatever run recorded
get_result_value_always_ok == [at |-> pc, ok |-> TRUE, err |-> "", net |-> net]

\* the value get_result returns; at: the position of run at the time of the call
get_result_value ==
    IF IsSome(err_str)
    THEN [at |-> pc, ok |-> FALSE, err |-> Unwrap(err_str), net |-> EmptyNet]
    ELSE [at |-> pc, ok |-> TRUE, err |-> "", net |-> net]

\* Faulty variant of get_result: the net is copied and stays in the translator
GetResultKeepsNet ==
    /\ pc \in {"new", "done", "failed"}
    /\ panic = NoPanic
    /\ Len(results) < MaxGetResult
    /\ results' = Append(results, get_result_value)
    /\ marking' = IF results = <<>> THEN InitialMarking(get_result_value.net) ELSE marking
    /\ UNCHANGED <<program, pc, err_str, net, call_stack, mutex_manager, thread_manager,
                   panic, drained, fired>>

\* std::mem::take leaves PetriNet::default() behind
GetResult ==
    /\ pc \in {"new", "done", "failed"}
    /\ panic = NoPanic
    /\ Len(results) < MaxGetResult
    /\ results' = Append(results, get_result_value)
    /\ net' = IF IsSome(err_str) THEN net ELSE EmptyNet
    /\ marking' = IF results = <<>> THEN InitialMarking(get_result_value.net) ELSE marking
    /\ UNCHANGED <<program, pc, err_str, call_stack, mutex_manager, thread_manager,
                   panic, drained, fired>>

GameNet == results[1].net
Inputs(n, transition) == {a \in n.arcs : a.to = transition}
Outputs(n, transition) == {a \in n.arcs : a.from = transition}
IsEnabled(n, m, transition) == \A a \in Inputs(n, transition) : m[a.from] >= a.weight
Sum(n, place, arcs) ==
    LET hits == {a \in arcs : a.from = place \/ a.to = place} IN
    IF hits = {} THEN 0 ELSE (CHOOSE a \in hits : TRUE).weight
FireTransition(n, m, transition) ==
    [p \in DOMAIN m |->
        m[p] - Sum(n, p, Inputs(n, transition)) + Sum(n, p, Outputs(n, transition))]

Fire ==
    /\ results # <<>>
    /\ Len(fired) < MaxFire
    /\ \E transition \in GameNet.transitions :
        /\ IsEnabled(GameNet, marking, transition)
        /\ marking' = FireTransition(GameNet, marking, transition)
        /\ fired' = Append(fired, transition)
    /\ UNCHANGED <<program, pc, err_str, net, call_stack, mutex_manager, thread_manager,
                   panic, drained, results>>

----------------------------------------------------------------------------

Next ==
    \/ RunNoMain
    \/ RunMain
    \/ VisitBasicBlock
    \/ TerminatorGoto
    \/ TerminatorSwitchInt
    \/ TerminatorReturn
    \/ TerminatorResume
    \/ TerminatorDrop
    \/ CallDiverging
    \/ CallPanic
    \/ CallForeign
    \/ CallMirFunction
    \/ CallMutexNew
    \/ CallMutexLock
    \/ CallThreadSpawn
    \/ CallThreadJoin
    \/ FinishFunction
    \/ TranslateThread
    \/ FinishRun
    \/ GetResult
    \/ Fire

Spec == Init /\ [][Next]_vars

\* The steps of run
RunNext ==
    \/ RunNoMain
    \/ RunMain
    \/ VisitBasicBlock
    \/ TerminatorGoto
    \/ TerminatorSwitchInt
    \/ TerminatorReturn
    \/ TerminatorResume
    \/ TerminatorDrop
    \/ CallDiverging
    \/ CallPanic
    \/ CallForeign
    \/ CallMirFunction
    \/ CallMutexNew
    \/ CallMutexLock
    \/ CallThreadSpawn
    \/ CallThreadJoin
    \/ FinishFunction
    \/ TranslateThread
    \/ FinishRun

\* run is sequential code: once called, it keeps executing
LiveInit == InitWith(ProgramsUpTo(MaxCallsLive))

\* Entry functions that leave several threads pending: threads that return,
\* a thread that spawns, and two threads that create and lock a mutex
DrainOps == {OpSpawn2, OpSpawn3, OpSpawn5, OpSpawn6}
DrainPrograms ==
    {ProgramOf(StraightLine(ops)) : ops \in OpSequences(DrainOps, MaxCallsLive)}
DrainInit == InitWith(ProgramsUpTo(MaxCallsLive) \cup DrainPrograms)
DrainSpec == DrainInit /\ [][Next]_vars

\* Entry functions whose calls are classified by more than the callee's name
ClassifyOps ==
    {OpMir, OpMirUnwind, OpPanicReturns, OpNewA, OpNewDiverging, OpLockDiverging,
     OpSpawnDiverging, OpJoinDiverging, OpForeignFDiverging, OpDivergingF}
ClassifyPrograms ==
    {ProgramOf(StraightLine(ops)) : ops \in OpSequences(ClassifyOps, MaxCallsLive)}
ClassifyInit == InitWith(ProgramsUpTo(MaxCallsLive) \cup ClassifyPrograms)
ClassifySpec == ClassifyInit /\ [][Next]_vars
LiveSpec == LiveInit /\ [][Next]_vars /\ WF_vars(RunNext)

----------------------------------------------------------------------------
(* What the input program means, read from its text.  The call sites of a *)
(* straight-line entry function are translated once each, in block order. *)

MainBody == IF program.has_entry THEN program.functions[MAIN] ELSE <<>>
CallSites(func) ==
    {i \in 1..Len(MainBody) :
        /\ MainBody[i].terminator.kind = "Call"
        /\ MainBody[i].terminator.func = func}
NewSites == CallSites(STD_SYNC_MUTEX_NEW)
LockSites == CallSites(STD_SYNC_MUTEX_LOCK)
SpawnSites == CallSites(STD_THREAD_SPAWN)
JoinSites == CallSites(STD_THREAD_JOIN)
CountBefore(sites, i) == Cardinality({k \in sites : k < i})
Latest(sites) == CHOOSE i \in sites : \A k \in sites : k <= i

\* the k-th call site of its kind gets the label with index k
LabelOfSite(func, sites, i) == function_transition_label(func, CountBefore(sites, i))

\* the location a lock call site locks: its receiver, or what the receiver was
\* assigned from in the same block
LockSource(i) ==
    IF IsSome(MainBody[i].statement)
    THEN Unwrap(MainBody[i].statement).rvalue
    ELSE MainBody[i].terminator.args[1]
\* the mutex-new call sites that wrote the location lock site i locks
NewSitesOf(i) ==
    {k \in NewSites : k < i /\ MainBody[k].terminator.destination = LockSource(i)}
\* the index of the mutex that lock site i locks
MutexOfLockSite(i) == CountBefore(NewSites, Latest(NewSitesOf(i)))

\* the spawn call sites that wrote the handle join site j joins
SpawnSitesOf(j) ==
    {k \in SpawnSites :
        k < j /\ MainBody[k].terminator.destination = MainBody[j].terminator.args[1]}
\* the join call sites on the handle that spawn site k returned
JoinSitesOf(k) ==
    {j \in JoinSites : SpawnSitesOf(j) # {} /\ Latest(SpawnSitesOf(j)) = k}

\* the net that run produced: in the translator until get_result moves it out
ProducedNet == IF results = <<>> THEN net ELSE results[1].net
\* get_result was not called before run
RunOnFreshTranslator == results = <<>> \/ results[1].at # "new"
Arc(from, to) == [from |-> from, to |-> to, weight |-> 1]

----------------------------------------------------------------------------
(* C1 *)

\* C1: every element the translation creates gets a label no other place, and no
\* other transition, of the net carries: the translation never has to reject an
\* element because its label is taken.
C1_LabelsPairwiseDistinct ==
    panic \notin {"duplicate place label", "duplicate transition label"}

----------------------------------------------------------------------------
(* C2 *)

\* the join transition that the text of the entry function asks for on the
\* instance created at spawn call site k
JoinOfSpawnSite(k) ==
    IF JoinSitesOf(k) = {} THEN None
    ELSE Some(LabelOfSite(STD_THREAD_JOIN, JoinSites, Latest(JoinSitesOf(k))))

\* C2: when the walk of the entry function is over, the transition of join(h) is
\* recorded as the join transition of the instance created by the spawn call that
\* returned h, and of no other instance.
C2_JoinRecordedOnSpawnedInstance ==
    (pc = "translate_threads" /\ drained = <<>> /\ panic = NoPanic) =>
        \A k \in SpawnSites :
            \A i \in 1..Len(thread_manager.threads) :
                LET thread == thread_manager.threads[i] IN
                thread.spawn_transition = LabelOfSite(STD_THREAD_SPAWN, SpawnSites, k)
                    => thread.join_transition = JoinOfSpawnSite(k)

----------------------------------------------------------------------------
(* C3 *)

\* C3: once the queue is drained, the end place of every translated thread
\* instance has one outgoing arc, to the join transition recorded for the
\* instance, or none when no join is recorded, and its start place has one
\* incoming arc, from its spawn transition.
C3_ThreadPlacesConnected ==
    pc = "done" =>
        \A i \in 1..Len(drained) :
            LET thread == drained[i]
                thread_start_place == start_place_label(thread.index)
                thread_end_place == end_place_label(thread.index)
            IN  /\ {a \in ProducedNet.arcs : a.from = thread_end_place}
                     = IF IsSome(thread.join_transition)
                       THEN {Arc(thread_end_place, Unwrap(thread.join_transition))}
                       ELSE {}
                /\ {a \in ProducedNet.arcs : a.to = thread_start_place}
                     = {Arc(thread.spawn_transition, thread_start_place)}

\* a drained queue that held a joined instance and an instance never joined
C3_Witness ==
    /\ pc = "done"
    /\ \E i \in 1..Len(drained) : IsSome(drained[i].join_transition)
    /\ \E i \in 1..Len(drained) : ~IsSome(drained[i].join_transition)

----------------------------------------------------------------------------
(* C4 *)

SpawnTransitions(n) ==
    {label \in n.transitions :
        \E k \in 0..Cardinality(n.transitions) :
            label = function_transition_label(STD_THREAD_SPAWN, k)}
JoinTransitions(n) ==
    {label \in n.transitions :
        \E k \in 0..Cardinality(n.transitions) :
            label = function_transition_label(STD_THREAD_JOIN, k)}

----------------------------------------------------------------------------
(* C5 *)

ThreadPlaces(n) ==
    {label \in n.places :
        \E k \in 0..Cardinality(n.places) :
            label \in {start_place_label(k), end_place_label(k)}}

\* C5: a pending thread is dequeued only when the call stack is empty; at the
\* first dequeue every join call site of the entry function has its transition;
\* and the places of a thread are created only when the call stack is empty.
C5_DrainOnlyAfterTheWalk ==
    [][/\ drained' # drained =>
            /\ call_stack = <<>>
            /\ drained = <<>> =>
                Cardinality(JoinTransitions(net)) = Cardinality(JoinSites)
       /\ ThreadPlaces(net') # ThreadPlaces(net) => call_stack = <<>>]_vars

\* the drain starts after an entry function with a spawn and a join was walked
C5_Witness ==
    /\ pc = "translate_threads"
    /\ Len(drained) = 1
    /\ JoinSites # {}
    /\ ThreadPlaces(net) # {}
    /\ panic = NoPanic

----------------------------------------------------------------------------
(* C6 *)

\* C6: after construction and before run, the net holds the three places
\* PROGRAM_START, PROGRAM_END and PROGRAM_PANIC, no transition and no arc, and
\* one token, on PROGRAM_START.
C6_InitialNet ==
    (pc = "new" /\ results = <<>>) =>
        /\ net.places = {PROGRAM_START, PROGRAM_END, PROGRAM_PANIC}
        /\ Cardinality(net.places) = 3
        /\ net.transitions = {}
        /\ net.arcs = {}
        /\ TokensOf(net, PROGRAM_START) = 1
        /\ TokensOf(net, PROGRAM_END) = 0
        /\ TokensOf(net, PROGRAM_PANIC) = 0

\* the translator as constructed, for a program with an entry function
C6_Witness ==
    /\ pc = "new"
    /\ results = <<>>
    /\ program.has_entry
    /\ net = Translator_new.net

----------------------------------------------------------------------------
(* C7 *)

\* C7: for a program without an entry function, run records
\* ERR_NO_MAIN_FUNCTION_FOUND, pushes nothing, adds nothing to the net and
\* translates no thread, and every get_result after it returns the error
\* message and no net.
C7_NoEntryFunction ==
    ~program.has_entry =>
        /\ pc \in {"new", "failed"}
        /\ call_stack = <<>>
        /\ drained = <<>>
        /\ panic = NoPanic
        /\ net \in {Translator_new.net, EmptyNet}
        /\ net = EmptyNet => (results # <<>> /\ results[1].at = "new")
        /\ pc = "failed" => err_str = Some(ERR_NO_MAIN_FUNCTION_FOUND)
        /\ \A i \in 1..Len(results) :
            results[i].at = "failed" =>
                /\ ~results[i].ok
                /\ results[i].err = ERR_NO_MAIN_FUNCTION_FOUND
                /\ results[i].net = EmptyNet

\* get_result was called twice after run failed
C7_Witness ==
    /\ ~program.has_entry
    /\ pc = "failed"
    /\ Len(results) = 2
    /\ \A i \in 1..2 : results[i].at = "failed"

----------------------------------------------------------------------------
(* C8 *)

\* run returned: normally, or with the error of the missing entry function
Returned == pc \in {"done", "failed"}

\* C8, as stated: for every input with finite control-flow graphs and no
\* recursion, loops in a control-flow graph included, run called on a newly
\* constructed translator eventually returns.
C8_RunEventuallyReturns == <>(Returned \/ ~RunOnFreshTranslator)

\* C8, amended: for every such input, run eventually returns or stops with a
\* fatal error; it never keeps running.
C8_RunEventuallyReturnsOrStops == <>(Returned \/ panic # NoPanic)

\* run returned for the entry function whose control-flow graph has a loop
C8_Witness ==
    /\ pc = "done"
    /\ program = ProgramOf(LoopBody)
    /\ RunOnFreshTranslator

----------------------------------------------------------------------------
(* C9 *)

MutexPlaces(n) ==
    {label \in n.places :
        \E k \in 0..Cardinality(n.places) :
            label \in {mutex_unlocked_place_label(k), mutex_locked_place_label(k)}}
LockLabel(i) ==
    mutex_function_transition_label(STD_SYNC_MUTEX_LOCK, CountBefore(LockSites, i))

----------------------------------------------------------------------------
(* C10 *)

\* the transition puts a token on the unlocked place of mutex m
Unlocks(n, transition, m) ==
    \E a \in n.arcs : a.from = transition /\ a.to = mutex_unlocked_place_label(m)

\* in the firing sequence so far, lock site i fired and nothing unlocked mutex m since
HoldsSince(i, m) ==
    \E p \in 1..Len(fired) :
        /\ fired[p] = LockLabel(i)
        /\ \A q \in (p + 1)..Len(fired) : ~Unlocks(GameNet, fired[q], m)

\* C10: in the net of a finished translation, for two lock transitions on the
\* same mutex, once one has fired the other is not enabled in any marking
\* reached afterwards, unless a transition that unlocks the mutex fired in
\* between.
C10_SecondLockWaits ==
    (results # <<>> /\ results[1].at = "done") =>
        \A i, j \in LockSites :
            (i # j /\ MutexOfLockSite(i) = MutexOfLockSite(j) /\ HoldsSince(i, MutexOfLockSite(i)))
                => ~IsEnabled(GameNet, marking, LockLabel(j))

\* the first lock fired, control reached the second lock, and it waits
C10_Witness ==
    /\ results # <<>>
    /\ results[1].at = "done"
    /\ \E i, j \in LockSites :
        /\ i < j
        /\ MutexOfLockSite(i) = MutexOfLockSite(j)
        /\ fired # <<>>
        /\ fired[Len(fired)] = LockLabel(i)
        /\ \A a \in Inputs(GameNet, LockLabel(j)) :
            a.from # mutex_unlocked_place_label(MutexOfLockSite(j)) => marking[a.from] >= a.weight
        /\ ~IsEnabled(GameNet, marking, LockLabel(j))

----------------------------------------------------------------------------
(* C11 *)

\* C11: a call to a foreign callee with no cleanup target adds one transition,
\* with one input arc of weight 1 from the start place of the call and one
\* output arc of weight 1 to the place of the return block; it adds no other
\* transition or arc, no place but that of the return block, moves no token
\* and pushes no frame.
C11_ForeignCallIsOneTransition ==
    [][(CallForeign /\ ~IsSome(Terminator.cleanup) /\ panic' = NoPanic) =>
        LET transition == foreign_call_transition_label(Terminator.func)
            start_place == get_start_place_for_function_call(Cur)
            end_place == EndPlaceOfCall(Cur, Unwrap(Terminator.target))
        IN  /\ transition \notin net.transitions
            /\ net'.transitions = net.transitions \cup {transition}
            /\ {a \in net'.arcs : transition \in {a.from, a.to}}
                 = {Arc(start_place, transition), Arc(transition, end_place)}
            /\ net'.arcs \ net.arcs = {a \in net'.arcs : transition \in {a.from, a.to}}
            /\ net.arcs \subseteq net'.arcs
            /\ net.places \subseteq net'.places
            /\ net'.places \ net.places \subseteq {end_place}
            /\ net'.tokens = net.tokens
            /\ Len(call_stack') = Len(call_stack)]_vars

\* the entry function called a foreign function that cannot unwind
C11_Witness ==
    /\ Walking
    /\ Top(Cur).def_id = MAIN
    /\ Top(Cur).block >= 1
    /\ MainBody[1].terminator.kind = "Call"
    /\ MainBody[1].terminator.func = FOREIGN_F
    /\ ~IsSome(MainBody[1].terminator.cleanup)
    /\ Arc(PROGRAM_START, foreign_call_transition_label(FOREIGN_F)) \in net.arcs
    /\ Arc(foreign_call_transition_label(FOREIGN_F), basic_block_place_label(Top(Cur).name, 1))
            \in net.arcs

----------------------------------------------------------------------------
(* C12 *)

\* the call sites of the entry function that call a foreign function with a cleanup block
UnwindingForeignSites ==
    {i \in 1..Len(MainBody) :
        /\ MainBody[i].terminator.kind = "Call"
        /\ MainBody[i].terminator.func \in program.foreign
        /\ IsSome(MainBody[i].terminator.target)
        /\ IsSome(MainBody[i].terminator.cleanup)}

----------------------------------------------------------------------------
(* C13 *)

Range(sequence) == {sequence[i] : i \in 1..Len(sequence)}

\* the blocks of the entry function that end in a switch
SwitchBlocks ==
    {b \in 0..(Len(MainBody) - 1) : MainBody[b + 1].terminator.kind = "SwitchInt"}
SwitchTransitions(b) ==
    {switch_int_transition_label(MAIN, target) : target \in Range(MainBody[b + 1].terminator.targets)}

\* C13: a switch terminator with n distinct successors adds n transitions; each
\* has one input arc, from the place of the switch block, and one output arc,
\* to the place of its own successor, and no two share a successor. When one of
\* them fires in the returned net it moves one token from the place of the
\* switch block to the place of its successor and to no other place, and with
\* one token on the place of the switch block none of them is enabled afterwards.
C13_SwitchIsAChoice ==
    [][/\ (TerminatorSwitchInt /\ panic' = NoPanic) =>
            LET frame == Top(Cur)
                successors == Range(Terminator.targets)
                label(target) == switch_int_transition_label(frame.name, target)
                added == net'.transitions \ net.transitions
            IN  /\ Cardinality(added) = Cardinality(successors)
                /\ added = {label(target) : target \in successors}
                /\ \A target \in successors :
                    /\ Inputs(net', label(target)) = {Arc(frame.active, label(target))}
                    /\ Outputs(net', label(target))
                         = {Arc(label(target), BlockPlace(frame, target))}
                /\ \A target, other \in successors :
                    target # other => BlockPlace(frame, target) # BlockPlace(frame, other)
       /\ (Fire /\ results[1].at = "done") =>
            \A b \in SwitchBlocks :
                LET switch_place == basic_block_place_label(MAIN, b)
                    transition == fired'[Len(fired')]
                IN  transition \in SwitchTransitions(b) =>
                        /\ marking[switch_place] >= 1
                        /\ \E target \in Range(MainBody[b + 1].terminator.targets) :
                            /\ transition = switch_int_transition_label(MAIN, target)
                            /\ marking' = [p \in DOMAIN marking |->
                                    IF p = switch_place THEN marking[p] - 1
                                    ELSE IF p = basic_block_place_label(MAIN, target)
                                    THEN marking[p] + 1
                                    ELSE marking[p]]
                        /\ marking[switch_place] = 1 =>
                            \A other \in SwitchTransitions(b) :
                                ~IsEnabled(GameNet, marking', other)]_vars

\* a switch transition fired in the returned net while the others were enabled too
C13_Witness ==
    /\ results # <<>>
    /\ results[1].at = "done"
    /\ fired # <<>>
    /\ \E b \in SwitchBlocks :
        /\ Cardinality(SwitchTransitions(b)) >= 2
        /\ SwitchTransitions(b) \subseteq GameNet.transitions
        /\ fired[Len(fired)] \in SwitchTransitions(b)
        /\ marking[basic_block_place_label(MAIN, b)] = 0
        /\ Cardinality({target \in Range(MainBody[b + 1].terminator.targets) :
                            marking[basic_block_place_label(MAIN, target)] = 1}) = 1

----------------------------------------------------------------------------
(* C14 *)

\* main: h = spawn(t1); join(h); return, where t1 returns at once
SpawnJoinProgram == ProgramOf(StraightLine(<<OpSpawn1, OpJoin1>>))

\* C14: for an entry function that spawns one thread running an empty function
\* and then joins it, the produced net has the three fixed places, the start
\* and the end place of the thread and, besides them, only the places of the
\* blocks of the entry function; one spawn transition, whose outputs are the
\* continuation place of the caller and the start place of the thread; and one
\* join transition, whose inputs are the place of the joining block and the
\* end place of the thread.
C14_SpawnThenJoin ==
    (pc = "done" /\ program = SpawnJoinProgram /\ RunOnFreshTranslator) =>
        LET n == ProducedNet
            spawn == function_transition_label(STD_THREAD_SPAWN, 0)
            join == function_transition_label(STD_THREAD_JOIN, 0)
            continuation == basic_block_place_label(MAIN, 1)
        IN  /\ n.places = {PROGRAM_START, PROGRAM_END, PROGRAM_PANIC,
                            start_place_label(0), end_place_label(0),
                            continuation, basic_block_place_label(MAIN, 2)}
            /\ Cardinality(n.places) = 7
            /\ SpawnTransitions(n) = {spawn}
            /\ Inputs(n, spawn) = {Arc(PROGRAM_START, spawn)}
            /\ Outputs(n, spawn) = {Arc(spawn, continuation), Arc(spawn, start_place_label(0))}
            /\ JoinTransitions(n) = {join}
            /\ Inputs(n, join) = {Arc(continuation, join), Arc(end_place_label(0), join)}
            /\ Outputs(n, join) = {Arc(join, basic_block_place_label(MAIN, 2))}
            /\ Inputs(n, return_transition_label(THREAD_1))
                 = {Arc(start_place_label(0), return_transition_label(THREAD_1))}
            /\ Outputs(n, return_transition_label(THREAD_1))
                 = {Arc(return_transition_label(THREAD_1), end_place_label(0))}

\* the translation of the program finished and the thread was translated
C14_Witness ==
    /\ pc = "done"
    /\ program = SpawnJoinProgram
    /\ RunOnFreshTranslator
    /\ Len(drained) = 1
    /\ drained[1].thread_function_def_id = THREAD_1
    /\ end_place_label(0) \in ProducedNet.places

----------------------------------------------------------------------------
(* C15 *)

FixedPlaces == {PROGRAM_START, PROGRAM_END, PROGRAM_PANIC}

\* the net of an entry function that returns at once, but for the number of its places
ImmediateReturnNet(n) ==
    /\ FixedPlaces \subseteq n.places
    /\ n.transitions = {return_transition_label(MAIN)}
    /\ n.arcs = {Arc(BlockPlace([start_place |-> PROGRAM_START, name |-> MAIN],
                                Len(MainBody) - 1),
                     return_transition_label(MAIN)),
                  Arc(return_transition_label(MAIN), PROGRAM_END)}
    /\ \A p \in n.places : TokensOf(n, p) = IF p = PROGRAM_START THEN 1 ELSE 0

\* C15: for an entry function that immediately returns, the produced net has
\* the three fixed places and one more place for each basic block, one return
\* transition, from the place of the final block to the program-end place,
\* and tokens only on the program-start place.
C15_ImmediateReturn ==
    (pc = "done" /\ program = ProgramOf(ReturnBody) /\ RunOnFreshTranslator) =>
        /\ ImmediateReturnNet(ProducedNet)
        /\ Cardinality(ProducedNet.places) = Cardinality(FixedPlaces) + Len(MainBody)

\* C15, amended: the entry block stands on the program-start place and has no
\* place of its own, so the net has the three fixed places and one more place
\* for each basic block but the entry block: for an entry function that
\* immediately returns, the three fixed places only; the return transition
\* goes from the program-start place to the program-end place.
C15_ImmediateReturnOnStartPlace ==
    (pc = "done" /\ program = ProgramOf(ReturnBody) /\ RunOnFreshTranslator) =>
        /\ ImmediateReturnNet(ProducedNet)
        /\ ProducedNet.places = FixedPlaces
        /\ Cardinality(ProducedNet.places) = Cardinality(FixedPlaces) + Len(MainBody) - 1
        /\ Arc(PROGRAM_START, return_transition_label(MAIN)) \in ProducedNet.arcs

\* the translation of the entry function that returns at once finished
C15_Witness ==
    /\ pc = "done"
    /\ program = ProgramOf(ReturnBody)
    /\ RunOnFreshTranslator
    /\ return_transition_label(MAIN) \in ProducedNet.transitions

----------------------------------------------------------------------------
(* C16 *)

\* the translator when the thread that the spawn at hand creates is taken from
\* the queue, for one of the vectors find_mutexes_linked_to_place may return:
\* its net, and the frame of the thread function with its links
ThreadOfSpawn(mutexes) ==
    LET spawned == call_thread_spawn(Cur, Terminator, mutexes)
        started == IF spawned.panic # NoPanic THEN spawned
                   ELSE translate_thread([spawned EXCEPT !.call_stack = <<>>])
    IN  [net |-> started.net, call_stack |-> started.call_stack, panic |-> started.panic]

----------------------------------------------------------------------------
(* C17 *)

\* the locations the input programs name
Locations == {Place(local) : local \in 1..9} \cup {Field(local, field) : local \in {1, 5}, field \in 0..1}

\* the fatal stops of the four lookups
UnlinkedStops ==
    {"BUG: The place should be linked to a mutex",
     "BUG: The place should be linked to a lock guard",
     "BUG: The place should be linked to a join handle",
     "BUG: The place should be linked to a condition variable"}

\* C17: in every frame, the lookup of a location that has no link in the map
\* of its kind yields no handle but the fatal stop, for each of the four maps;
\* a mutex-lock, a thread-join or an alias of a location without a link stops
\* the translation with it (in a run on the net of a fresh translator); and once the translation has stopped, run does
\* not return and no result is handed out.
C17_UnlinkedLookupStops ==
    [][/\ \A i \in 1..Len(call_stack) : \A place \in Locations :
            LET memory == call_stack[i].memory IN
            /\ place \notin DOMAIN memory.places_linked_to_mutexes
                    => get_linked_mutex(memory, place) = None
            /\ place \notin DOMAIN memory.places_linked_to_lock_guards
                    => get_linked_lock_guard(memory, place) = None
            /\ place \notin DOMAIN memory.places_linked_to_join_handles
                    => get_linked_join_handle(memory, place) = None
            /\ place \notin DOMAIN memory.places_linked_to_condvars
                    => get_linked_condvar(memory, place) = None
       /\ (CallMutexLock /\ RunOnFreshTranslator
                /\ Terminator.args[1] \notin DOMAIN Memory(Cur).places_linked_to_mutexes)
            => panic' = "BUG: The place should be linked to a mutex"
       /\ (CallThreadJoin /\ RunOnFreshTranslator
                /\ Terminator.args[1] \notin DOMAIN Memory(Cur).places_linked_to_join_handles)
            => panic' = "BUG: The place should be linked to a join handle"
       /\ (VisitBasicBlock /\ RunOnFreshTranslator
                /\ IsSome(Body(Top(Cur))[Top(Cur).block + 1].statement)
                /\ Unwrap(Body(Top(Cur))[Top(Cur).block + 1].statement).rvalue
                        \notin DOMAIN Memory(Cur).places_linked_to_mutexes)
            => panic' = "BUG: The place should be linked to a mutex"
       /\ panic \in UnlinkedStops
            => /\ panic' = panic
               /\ pc' = pc
               /\ pc \notin {"done", "failed"}
               /\ results' = results]_vars

\* the translation stopped at the join of a location that no spawn linked
C17_Witness ==
    /\ panic = "BUG: The place should be linked to a join handle"
    /\ RunOnFreshTranslator
    /\ pc = "translate_main"
    /\ Terminator.kind = "Call"
    /\ is_thread_join(Terminator.func)
    /\ get_linked_join_handle(Memory(Cur), Terminator.args[1]) = None

----------------------------------------------------------------------------
(* C18 *)

\* the handles a link is tried with
Handles == 0..2

\* map is the map before a link of place to handle, linked the map after it
LinkedOnly(map, linked, place, handle) ==
    /\ DOMAIN linked = DOMAIN map \cup {place}
    /\ linked[place] = handle
    /\ \A other \in DOMAIN map : other # place => linked[other] = map[other]

----------------------------------------------------------------------------
(* C19 *)

\* the function names and the indexes the labels are requested for
LabelledFunctions ==
    {MAIN, FOREIGN_F, FOREIGN_G, FUNCTION_H, THREAD_1, THREAD_2, THREAD_3, THREAD_4, ABORT,
     STD_THREAD_SPAWN, STD_THREAD_JOIN, STD_SYNC_MUTEX_NEW, STD_SYNC_MUTEX_LOCK,
     CORE_PANICKING_PANIC}
LabelIndexes == 0..3

\* every label of naming::function and naming::thread, by its arguments
Labels ==
    [function_name \in LabelledFunctions |->
        [return |-> return_transition_label(function_name),
         foreign_call |-> foreign_call_transition_label(function_name),
         foreign_call_unwind |-> foreign_call_unwind_transition_label(function_name),
         diverging_call |-> diverging_call_transition_label(function_name),
         panic |-> panic_transition_label(function_name),
         function |-> [index \in LabelIndexes |->
                          function_transition_label(function_name, index)],
         start_place |-> [index \in LabelIndexes |-> start_place_label(index)],
         end_place |-> [index \in LabelIndexes |-> end_place_label(index)]]]

----------------------------------------------------------------------------
(* C20 *)

\* C20: after the side effects of a thread-spawn, no location that shares the
\* local of the spawn argument, whose handles find_mutexes_linked_to_place
\* returned, is linked to a mutex in the memory of the spawning frame.
C20_SpawnRemovesCapturedHandles ==
    [][(CallThreadSpawn /\ panic' = NoPanic) =>
        \A place \in DOMAIN Memory(Cur).places_linked_to_mutexes :
            place.local = Terminator.args[1].local
                => get_linked_mutex(call_stack'[Len(call_stack')].memory, place) = None]_vars

-----------------------------------------------------------------------------
(* C21 *)

\* every thread instance the run has created so far: the dequeued ones, then
\* the pending ones
ThreadInstances == drained \o thread_manager.threads

\* C21: no two thread instances created during one run have the same index,
\* also when an instance is created after earlier ones were dequeued, so no two
\* instances share a THREAD_START_i or THREAD_END_i place label.
C21_ThreadIndexesDistinct ==
    \A i, j \in 1..Len(ThreadInstances) :
        i # j => /\ ThreadInstances[i].index # ThreadInstances[j].index
                 /\ start_place_label(ThreadInstances[i].index)
                        # start_place_label(ThreadInstances[j].index)
                 /\ end_place_label(ThreadInstances[i].index)
                        # end_place_label(ThreadInstances[j].index)

-----------------------------------------------------------------------------
(* C22 *)

TerminatorOf(t) == Body(Top(t))[Top(t).block + 1].terminator

\* the translators one step of the visitor leads to, from a translator that has
\* a function on its call stack: the steps of Next, as a function of the translator
VisitStep(t) ==
    LET frame == Top(t)
        term == TerminatorOf(t)
        kind == IF term.kind = "Call" THEN FunctionCallKind(term) ELSE term.kind
    IN  IF ~frame.at_terminator
        THEN IF frame.block < Len(Body(frame))
             THEN {visit_basic_block_data(t)}
             ELSE {[t EXCEPT !.call_stack = SubSeq(t.call_stack, 1, Len(t.call_stack) - 1)]}
        ELSE CASE kind = "Goto" -> {NextBlock(goto(t, term.target))}
               [] kind = "SwitchInt" -> {NextBlock(switch_int(t, term.targets))}
               [] kind = "Return" -> {NextBlock(return(t))}
               [] kind = "Resume" -> {NextBlock(unwind(t))}
               [] kind = "Drop" -> {NextBlock(drop(t, term.place, term.target))}
               [] kind = "Diverging" ->
                    {NextBlock(call_diverging_function(
                        t, get_start_place_for_function_call(t), term.func))}
               [] kind = "Panic" ->
                    {NextBlock(call_panic_function(
                        t, get_start_place_for_function_call(t), PROGRAM_PANIC, frame.name))}
               [] kind = "Foreign" -> {NextBlock(call_foreign(t, term))}
               [] kind = "MirFunction" -> {call_mir_function(t, term)}
               [] kind = "MutexNew" -> {NextBlock(call_mutex_new(t, term))}
               [] kind = "MutexLock" -> {NextBlock(call_mutex_lock(t, term))}
               [] kind = "ThreadSpawn" ->
                    {NextBlock(call_thread_spawn(t, term, mutexes)) :
                        mutexes \in find_mutexes_linked_to_place(Memory(t), term.args[1])}
               [] kind = "ThreadJoin" -> {NextBlock(call_thread_join(t, term))}

Stopped(t) == t.panic # NoPanic \/ t.call_stack = <<>>

\* translate_top_call_stack until the call stack is empty or the translation stops
RECURSIVE VisitAll(_)
VisitAll(translators) ==
    IF \A t \in translators : Stopped(t) THEN translators
    ELSE VisitAll(UNION {IF Stopped(t) THEN {t} ELSE VisitStep(t) : t \in translators})

\* the queue of pending threads with its i-th element moved to the front
MoveToFront(t, i) ==
    LET threads == t.thread_manager.threads IN
    [t EXCEPT !.thread_manager.threads =
        <<threads[i]>> \o SubSeq(threads, 1, i - 1) \o SubSeq(threads, i + 1, Len(threads))]

\* the positions of the queue a turn of the loop may dequeue: pop_thread takes
\* the front of the queue (the thread spawned last)
FrontOnly == "front"
BackOnly == "back"
AnyPosition == "any"
Positions(order, threads) ==
    IF order = FrontOnly THEN {1}
    ELSE IF order = BackOnly THEN {Len(threads)}
    ELSE 1..Len(threads)

\* the translators a drain of the queue ends in, when every turn of the loop
\* dequeues a pending thread at one of the positions of the order: all of
\* them, one per choice
RECURSIVE DrainBy(_, _)
DrainBy(translators, order) ==
    LET Drained(t) == t.panic # NoPanic \/ t.thread_manager.threads = <<>> IN
    IF \A t \in translators : Drained(t) THEN translators
    ELSE DrainBy(UNION {IF Drained(t) THEN {t}
                        ELSE UNION {VisitAll({translate_thread(MoveToFront(t, i))}) :
                                        i \in Positions(order, t.thread_manager.threads)} :
                        t \in translators},
                 order)

\* what a drain produced: the places, transitions and arcs of the net, when the
\* translation did not stop
NetOf(t) ==
    IF t.panic # NoPanic THEN [stopped |-> TRUE]
    ELSE [stopped |-> FALSE, places |-> t.net.places,
          transitions |-> t.net.transitions, arcs |-> t.net.arcs]
PlacesAndTransitionsOf(t) ==
    IF t.panic # NoPanic THEN [stopped |-> TRUE]
    ELSE [stopped |-> FALSE, places |-> t.net.places, transitions |-> t.net.transitions]

\* the entry function has been translated and no thread has been dequeued
AtStartOfDrain ==
    /\ pc = "translate_threads"
    /\ panic = NoPanic
    /\ call_stack = <<>>
    /\ drained = <<>>
    /\ RunOnFreshTranslator

-----------------------------------------------------------------------------
(* C23 *)

\* the visitor stands on a call site of the entry function
InEntryFunction == pc = "translate_main" /\ Len(call_stack) = 1
\* the call site of the entry function the visitor stands on
CurrentSite == Top(Cur).block + 1

\* C23: the k-th mutex-new call of a run (k counted from 0) creates exactly one
\* mutex instance, with index k, leaves the earlier instances unchanged, links
\* the return location of the call to handle k in the mutex map of the calling
\* frame, and the label of the transition of the call carries the index k.
\* Checked on the calls that complete, in the entry function, where k is the
\* number of mutex-new call sites before the call.
C23_MutexNewCreatesInstanceK ==
    [][(CallMutexNew /\ InEntryFunction /\ RunOnFreshTranslator /\ panic' = NoPanic) =>
        LET k == CountBefore(NewSites, CurrentSite)
            mutexes == mutex_manager.mutexes
        IN  /\ Len(mutexes) = k
            /\ Len(mutex_manager'.mutexes) = k + 1
            /\ mutex_manager'.mutexes[k + 1].index = k
            /\ SubSeq(mutex_manager'.mutexes, 1, k) = mutexes
            /\ call_stack'[1].memory.places_linked_to_mutexes
                    = Insert(Memory(Cur).places_linked_to_mutexes, Terminator.destination, k)
            /\ net'.transitions \ net.transitions
                    = {mutex_function_transition_label(STD_SYNC_MUTEX_NEW, k)}
            /\ net'.places \ net.places
                    = {mutex_unlocked_place_label(k), mutex_locked_place_label(k),
                       basic_block_place_label(MAIN, CurrentSite)} \ net.places]_vars

\* the entry function created two mutexes, the second one after two locks, and
\* linked the second one to the location the first one was linked to
C23_Witness ==
    /\ pc = "translate_main"
    /\ panic = NoPanic
    /\ RunOnFreshTranslator
    /\ Len(mutex_manager.mutexes) = 2
    /\ mutex_manager.lock_counter = 2
    /\ Len(call_stack) = 1
    /\ Top(Cur).block = 4
    /\ DOMAIN Memory(Cur).places_linked_to_mutexes = {Field(5, 0)}

-----------------------------------------------------------------------------
(* C24 *)

\* the memory of the frame on top after the step
MemoryAfter == call_stack'[Len(call_stack')].memory

-----------------------------------------------------------------------------
(* C25 *)

\* the lock call sites of the entry function that have a cleanup target
UnwindingLockSites == {i \in LockSites : IsSome(MainBody[i].terminator.cleanup)}
CleanupPlaceOfSite(i) ==
    basic_block_place_label(MAIN, Unwrap(MainBody[i].terminator.cleanup))
\* the transitions of the unwind path of call site i: the lock transition, whose
\* extra output is the cleanup place, and what consumes from the cleanup place
UnwindPath(n, i) ==
    {LockLabel(i)} \cup {a.to : a \in {b \in n.arcs : b.from = CleanupPlaceOfSite(i)}}
\* lock site i fired: the token of the mutex is consumed and a token went to
\* the cleanup place, where it stays until the unwind moves it to PROGRAM_PANIC
OnCleanupPath(i) ==
    /\ \E p \in 1..Len(fired) : fired[p] = LockLabel(i)
    /\ marking[CleanupPlaceOfSite(i)] + marking[PROGRAM_PANIC] > 0

-----------------------------------------------------------------------------
(* C26 *)

\* the locations an alias is tried on
AliasTargets == {Place(3), Place(4), Place(6), Field(5, 0)}

\* the translator with the memory of the frame on top replaced
WithMemory(t, memory) == [t EXCEPT !.call_stack[Len(t.call_stack)].memory = memory]

\* map and memory are one map of the memory of t and the memory itself, linked
\* and aliased are the map and the translator after the alias of target to
\* source, stop is the fatal stop of the lookup in this map
AliasedOrStopped(t, map, memory, linked, aliased, target, source, stop) ==
    IF source \in DOMAIN map
    THEN /\ aliased.panic = NoPanic
         /\ LinkedOnly(map, linked, target, map[source])
         /\ linked[target] = map[source]
         /\ linked[source] = map[source]
         /\ WithMemory(aliased, memory) = t
    ELSE /\ aliased.panic = stop
         /\ linked = map
         /\ [aliased EXCEPT !.panic = NoPanic] = t

-----------------------------------------------------------------------------
(* C27 *)

\* found is one of the vectors the search of query may return on map: one entry
\* for each linked location with the local of the query, and nothing else
FoundExactly(map, found, query) ==
    LET matching == {k \in DOMAIN map : k.local = query.local} IN
    /\ Len(found) = Cardinality(matching)
    /\ \A handle \in {map[k] : k \in DOMAIN map} \cup Range(found) :
            Cardinality({i \in 1..Len(found) : found[i] = handle})
                = Cardinality({k \in matching : map[k] = handle})
    /\ matching = {} => found = <<>>

\* the memories the search is tried on: the memory of the frame, the memory
\* with the second field of the closure made an alias of the first, and the
\* memory with two condition variables linked to the fields of the closure
WithAlias(t) == Memory(link_place_to_same_mutex(t, Field(5, 1), Field(5, 0)))
WithCondvars(t) ==
    Memory(link_place_to_same_condvar(link_place_to_condvar(t, Field(5, 0), 0),
                                      Field(5, 1), Field(5, 0)))

\* C27: the search by the root of a location returns exactly one entry for each
\* linked location whose local is the local of the query, whatever its fields,
\* and nothing else: also when the query itself is not linked, the same handle
\* more than once when two such locations are aliases, the empty list when no
\* location matches; and it changes no link (the memory of the frame that
\* spawns is as it was but for the link of the join handle).
C27_FindByRoot ==
    [][/\ (call_stack # <<>> /\ panic = NoPanic) =>
            \A query \in Locations :
                /\ \A memory \in {Memory(Cur), WithAlias(Cur)} :
                    /\ find_mutexes_linked_to_place(memory, query) # {}
                    /\ \A found \in find_mutexes_linked_to_place(memory, query) :
                            FoundExactly(memory.places_linked_to_mutexes, found, query)
                /\ \A memory \in {Memory(Cur), WithCondvars(Cur)} :
                    /\ find_condvars_linked_to_place(memory, query) # {}
                    /\ \A found \in find_condvars_linked_to_place(memory, query) :
                            FoundExactly(memory.places_linked_to_condvars, found, query)
       /\ (CallThreadSpawn /\ RunOnFreshTranslator /\ panic' = NoPanic) =>
            /\ FoundExactly(Memory(Cur).places_linked_to_mutexes,
                            Head(thread_manager'.threads).mutexes, Terminator.args[1])
            /\ [MemoryAfter EXCEPT !.places_linked_to_join_handles
                                        = Memory(Cur).places_linked_to_join_handles]
                    = Memory(Cur)]_vars

\* a spawn whose closure is not linked itself found the two mutexes of its fields
C27_Witness ==
    /\ panic = NoPanic
    /\ RunOnFreshTranslator
    /\ pc = "translate_main"
    /\ thread_manager.threads # <<>>
    /\ Len(Head(thread_manager.threads).mutexes) = 2
    /\ Place(5) \notin DOMAIN Memory(Cur).places_linked_to_mutexes
    /\ {Field(5, 0), Field(5, 1)} \subseteq DOMAIN Memory(Cur).places_linked_to_mutexes

-----------------------------------------------------------------------------
(* C28 *)

\* C28: when the body of a thread is set up, the i-th captured field that
\* holds a mutex, in the order of the declarations of the thread function, is
\* linked in the frame of the thread to the i-th handle the search found at the
\* spawn site; a thread function that declares more such fields than handles
\* were found is a fatal stop.
C28_CapturesMatchDiscoveryOrder ==
    [][(TranslateThread /\ RunOnFreshTranslator) =>
        LET thread == Head(thread_manager.threads)
            fields == VarDebugInfo(thread.thread_function_def_id)
        IN  /\ Len(fields) > Len(thread.mutexes)
                => panic' = "BUG: The thread function receives more mutexes than the ones detected"
            /\ panic' = NoPanic
                => \A i \in 1..Len(fields) :
                        get_linked_mutex(MemoryAfter, fields[i]) = Some(thread.mutexes[i])]_vars

-----------------------------------------------------------------------------
(* C29 *)

\* wrapped is the translator t after the side effects of a wrap, a clone or a
\* deref of the argument into the return location D, carries the answer of the
\* type predicate on the argument
WrapPropagates(t, wrapped, argument, D, carries) ==
    LET m == get_linked_mutex(Memory(t), argument) IN
    /\ (carries /\ IsSome(m)) =>
            /\ wrapped.panic = NoPanic
            /\ get_linked_mutex(Memory(wrapped), D) = m
            /\ get_linked_mutex(Memory(wrapped), argument) = m
            /\ LinkedOnly(Memory(t).places_linked_to_mutexes,
                          Memory(wrapped).places_linked_to_mutexes, D, Unwrap(m))
            /\ wrapped.mutex_manager = t.mutex_manager
            /\ wrapped.net = t.net
    /\ ~carries => wrapped = t

-----------------------------------------------------------------------------
(* C30 *)

\* the frames of a call stack: the function and the boundary places of each
Frames(stack) ==
    [i \in 1..Len(stack) |->
        <<stack[i].def_id, stack[i].start_place, stack[i].end_place>>]

\* the steps of a call terminator whose callee is not walked
CallWithoutWalk ==
    \/ CallForeign
    \/ CallDiverging
    \/ CallPanic
    \/ CallMutexNew
    \/ CallMutexLock
    \/ CallThreadSpawn
    \/ CallThreadJoin

\* C30: a call terminator changes the call stack only when the callee is an
\* ordinary function with a CFG: exactly one frame is pushed, with the start
\* place of the call as its start and the place of the return-target block of
\* the call as its end, so that the return transition of the callee produces
\* into the continuation of the caller; a call of every other class (foreign,
\* diverging, panic, mutex-new, mutex-lock, thread-spawn, thread-join) leaves
\* the frames of the call stack as they were.
C30_OnlyOrdinaryCallsPush ==
    [][/\ (CallMirFunction /\ RunOnFreshTranslator /\ panic' = NoPanic) =>
            /\ Len(call_stack') = Len(call_stack) + 1
            /\ Frames(SubSeq(call_stack', 1, Len(call_stack))) = Frames(call_stack)
            /\ Frames(call_stack')[Len(call_stack')]
                    = <<Terminator.func, Top(Cur).active,
                        BlockPlace(Top(Cur), Unwrap(Terminator.target))>>
            /\ BlockPlace(Top(Cur), Unwrap(Terminator.target)) \in net'.places
       /\ (TerminatorReturn /\ RunOnFreshTranslator /\ panic' = NoPanic
                /\ Len(call_stack) > 1) =>
            LET caller == call_stack[Len(call_stack) - 1] IN
            /\ Top(Cur).end_place = BlockPlace(caller, caller.block)
            /\ Arc(return_transition_label(Top(Cur).name), BlockPlace(caller, caller.block))
                    \in net'.arcs
       /\ CallWithoutWalk => Frames(call_stack') = Frames(call_stack)]_vars

\* the callee of an ordinary call in the second block of the entry function is
\* on the call stack, between the place of the call and the place of the third block
C30_Witness ==
    /\ pc = "translate_main"
    /\ panic = NoPanic
    /\ RunOnFreshTranslator
    /\ Len(call_stack) = 2
    /\ Frames(call_stack)[2]
            = <<FUNCTION_H, basic_block_place_label(MAIN, 1), basic_block_place_label(MAIN, 2)>>

----------------------------------------------------------------------------
(* C31 *)

\* The boundary places an activation record holds
BoundaryPlaces(frame) ==
    {frame[field] : field \in DOMAIN frame \cap {"start_place", "end_place", "cleanup_place"}}

\* C31: the activation record pushed for an ordinary call that has a cleanup
\* target holds the cleanup place of the call (the place of the cleanup block
\* of the caller) next to the start place and the end place of the call.
C31_FrameHoldsCleanupPlace ==
    [][(/\ CallMirFunction
        /\ IsSome(Terminator.cleanup)
        /\ panic' = NoPanic)
       => LET pushed == call_stack'[Len(call_stack')] IN
          /\ Len(call_stack') = Len(call_stack) + 1
          /\ get_start_place_for_function_call(Cur) \in BoundaryPlaces(pushed)
          /\ EndPlaceOfCall(Cur, Unwrap(Terminator.target)) \in BoundaryPlaces(pushed)
          /\ Unwrap(CleanupPlaceOfCall(Cur, Terminator.cleanup)) \in BoundaryPlaces(pushed)]_vars

----------------------------------------------------------------------------
(* C32 *)

\* a step of the translation from a call terminator
CallTerminatorStep ==
    /\ AtTerminator
    /\ Terminator.kind = "Call"
    /\ Cur' # Cur

\* the step that call_function takes for each variant of FunctionCall
StepOfClass(class) ==
    CASE class = "Panic" -> CallPanic
      [] class = "Diverging" -> CallDiverging
      [] class = "Foreign" -> CallForeign
      [] class = "MutexNew" -> CallMutexNew
      [] class = "MutexLock" -> CallMutexLock
      [] class = "ThreadSpawn" -> CallThreadSpawn
      [] class = "ThreadJoin" -> CallThreadJoin
      [] class = "MirFunction" -> CallMirFunction

Classes ==
    {"Panic", "Diverging", "Foreign", "MutexNew", "MutexLock", "ThreadSpawn", "ThreadJoin",
     "MirFunction"}

\* the class the priority of the claim gives a call terminator
ClassByPriority(term) ==
    CASE is_panic_function(term.func) -> "Panic"
      [] OTHER ->
    CASE ~IsSome(term.target) -> "Diverging"
      [] OTHER ->
    CASE term.func \in program.foreign -> "Foreign"
      [] term.func = STD_SYNC_MUTEX_NEW -> "MutexNew"
      [] term.func = STD_SYNC_MUTEX_LOCK -> "MutexLock"
      [] term.func = STD_THREAD_SPAWN -> "ThreadSpawn"
      [] term.func = STD_THREAD_JOIN -> "ThreadJoin"
      [] OTHER -> "MirFunction"

\* the frame that made the call, after the step
CallerAfter == call_stack'[Len(call_stack)]

\* C32: every call terminator is translated as exactly one class, decided in
\* the order panic (by the name of the callee), diverging (no return target),
\* foreign, mutex-new, mutex-lock, thread-spawn, thread-join, ordinary.  A
\* panic call adds one transition from the place of the call to PROGRAM_PANIC
\* and a call without return target one transition without output; both leave
\* the places of the net, the blocks of the frame that have a place, the
\* frames, the memory and the managers of mutexes and threads as they were (no
\* end place or cleanup place is asked for, no primitive is translated, no
\* frame is pushed).  Every other call asks for the place of its return
\* block and of its cleanup block.
C32_CallClassifiedByPriority ==
    [][(CallTerminatorStep /\ RunOnFreshTranslator /\ panic' = NoPanic) =>
        LET term == Terminator
            class == ClassByPriority(term)
            start_place == Top(Cur).active
            added == net'.transitions \ net.transitions
        IN  /\ {c \in Classes : StepOfClass(c)} = {class}
            /\ class = "Panic" =>
                /\ added = {panic_transition_label(Top(Cur).name)}
                /\ net'.arcs \ net.arcs
                        = {Arc(start_place, panic_transition_label(Top(Cur).name)),
                           Arc(panic_transition_label(Top(Cur).name), PROGRAM_PANIC)}
            /\ class = "Diverging" =>
                /\ added = {diverging_call_transition_label(term.func)}
                /\ net'.arcs \ net.arcs
                        = {Arc(start_place, diverging_call_transition_label(term.func))}
            /\ class \in {"Panic", "Diverging"} =>
                /\ net'.places = net.places
                /\ Len(call_stack') = Len(call_stack)
                /\ Frames(call_stack') = Frames(call_stack)
                /\ CallerAfter.basic_blocks = Top(Cur).basic_blocks
                /\ CallerAfter.memory = Top(Cur).memory
                /\ mutex_manager' = mutex_manager
                /\ thread_manager' = thread_manager
            /\ class \notin {"Panic", "Diverging"} =>
                /\ Unwrap(term.target) \in CallerAfter.basic_blocks
                /\ BlockPlace(Top(Cur), Unwrap(term.target)) \in net'.places
                /\ IsSome(term.cleanup) =>
                    /\ Unwrap(term.cleanup) \in CallerAfter.basic_blocks
                    /\ BlockPlace(Top(Cur), Unwrap(term.cleanup)) \in net'.places
            /\ Len(call_stack') # Len(call_stack) => class = "MirFunction"
            /\ mutex_manager' # mutex_manager => class \in {"MutexNew", "MutexLock"}
            /\ thread_manager' # thread_manager => class \in {"ThreadSpawn", "ThreadJoin"}]_vars

\* the entry function has called Mutex::lock without a return target, with a
\* cleanup block, as its second call: the call is translated as a diverging call
C32_Witness ==
    /\ pc = "translate_main"
    /\ panic = NoPanic
    /\ RunOnFreshTranslator
    /\ Len(call_stack) = 1
    /\ Top(Cur).block = 2
    /\ ~Top(Cur).at_terminator
    /\ Len(Body(Top(Cur))) >= 2
    /\ Body(Top(Cur))[2].terminator.kind = "Call"
    /\ Body(Top(Cur))[2].terminator.func = STD_SYNC_MUTEX_LOCK
    /\ ~IsSome(Body(Top(Cur))[2].terminator.target)
    /\ IsSome(Body(Top(Cur))[2].terminator.cleanup)
    /\ diverging_call_transition_label(STD_SYNC_MUTEX_LOCK) \in net.transitions
    /\ mutex_manager.lock_counter = 0

----------------------------------------------------------------------------
(* C33 *)

\* the call chain that a call stack stands for: the bottom frame is the entry
\* function (during the walk of the entry function) or the body of the thread
\* taken from the queue last, and every other frame is the callee of the
\* ordinary call its caller is at
IsCallChain(stack, position, popped) ==
    /\ position \in {"new", "done", "failed"} => stack = <<>>
    /\ stack # <<>> =>
        /\ position = "translate_main" =>
            Frames(stack)[1] = <<MAIN, PROGRAM_START, PROGRAM_END>>
        /\ position = "translate_threads" =>
            /\ popped # <<>>
            /\ LET thread == popped[Len(popped)] IN
               Frames(stack)[1] = <<thread.thread_function_def_id,
                                    start_place_label(thread.index),
                                    end_place_label(thread.index)>>
        /\ \A i \in 2..Len(stack) :
            LET caller == stack[i - 1]
                term == Body(caller)[caller.block].terminator
            IN  /\ term.kind = "Call"
                /\ FunctionCallKind(term) = "MirFunction"
                /\ Frames(stack)[i] = <<term.func, caller.active,
                                        BlockPlace(caller, Unwrap(term.target))>>

\* C33: pushes and pops of the call stack are balanced and LIFO.  A step
\* either keeps the frames, or pushes one frame on top (the entry function
\* and a thread body on the empty stack, a callee above its caller), or pops
\* the frame on top once all its blocks are walked; the frames under the one
\* on top, their memory included, are never changed; so the frame popped is
\* the one pushed for the walk, the stack is the current call chain, and it
\* is empty when run returns.
C33_CallStackBalanced ==
    [][(panic' = NoPanic) =>
        /\ \/ /\ Len(call_stack') = Len(call_stack)
              /\ Frames(call_stack') = Frames(call_stack)
           \/ /\ Len(call_stack') = Len(call_stack) + 1
              /\ SubSeq(Frames(call_stack'), 1, Len(call_stack)) = Frames(call_stack)
              /\ call_stack'[Len(call_stack')].block = 0
              /\ ~call_stack'[Len(call_stack')].at_terminator
              /\ \/ RunMain /\ call_stack = <<>>
                 \/ TranslateThread /\ call_stack = <<>>
                 \/ CallMirFunction /\ call_stack # <<>>
           \/ /\ FinishFunction
              /\ ~Top(Cur).at_terminator
              /\ Top(Cur).block = Len(Body(Top(Cur)))
              /\ call_stack' = SubSeq(call_stack, 1, Len(call_stack) - 1)
        /\ \A i \in 1..(Len(call_stack) - 1) : call_stack'[i] = call_stack[i]
        /\ IsCallChain(call_stack, pc, drained)
        /\ IsCallChain(call_stack', pc', drained')]_vars

\* the callee of the second call of the entry function is popped and the walk
\* is back in the entry function, at its third block, after a Mutex::new of the
\* entry function that linked its memory before the call
C33_Witness ==
    /\ pc = "translate_main"
    /\ panic = NoPanic
    /\ RunOnFreshTranslator
    /\ Len(call_stack) = 1
    /\ Top(Cur).block = 2
    /\ Len(Body(Top(Cur))) >= 2
    /\ Body(Top(Cur))[2].terminator.kind = "Call"
    /\ Body(Top(Cur))[2].terminator.func = FUNCTION_H
    /\ return_transition_label(FUNCTION_H) \in net.transitions
    /\ DOMAIN Top(Cur).memory.places_linked_to_mutexes = {Field(5, 0)}

----------------------------------------------------------------------------
(* C34 *)

\* the token game is played on the net of a finished run
GameOnFinishedRun == results # <<>> /\ results[1].at = "done" /\ results[1].ok

\* the end place of the thread spawned at call site k of the entry function
EndPlaceOfSpawnSite(k) == end_place_label(CountBefore(SpawnSites, k))

\* among the first n transitions fired, one has put a token in the place
ProducedBefore(place, n) ==
    \E i \in 1..n : Arc(fired[i], place) \in GameNet.arcs

\* C34: in the produced net the join transition of a joined thread (a handle
\* is joined once) has the end place of that thread among its inputs, so
\* whenever it fires, and the continuation of the joiner is marked, the body of
\* the thread has put a token in the end place of the thread before.
C34_JoinWaitsForItsThread ==
    GameOnFinishedRun =>
        \A j \in JoinSites :
            (SpawnSitesOf(j) # {} /\ JoinSitesOf(Latest(SpawnSitesOf(j))) = {j}) =>
                LET join == LabelOfSite(STD_THREAD_JOIN, JoinSites, j)
                    thread_end_place == EndPlaceOfSpawnSite(Latest(SpawnSitesOf(j)))
                IN  /\ join \in GameNet.transitions =>
                        Arc(thread_end_place, join) \in GameNet.arcs
                    /\ \A i \in 1..Len(fired) :
                        fired[i] = join => ProducedBefore(thread_end_place, i - 1)

----------------------------------------------------------------------------
(* C35 *)

\* the places of control flow: every place but the places of the mutexes
ControlPlaces(n) == n.places \ MutexPlaces(n)

RECURSIVE TokensOn(_, _)
TokensOn(m, places) ==
    IF places = {} THEN 0
    ELSE LET place == CHOOSE p \in places : TRUE IN
         m[place] + TokensOn(m, places \ {place})

ControlTokens == TokensOn(marking, ControlPlaces(GameNet))

\* how many of the transitions fired so far are among the given ones
FiredAmong(transitions) == Cardinality({i \in 1..Len(fired) : fired[i] \in transitions})

\* the transitions of the calls of the entry function that have a return block
\* and a cleanup block
CleanupCallTransitions ==
    {foreign_call_transition_label(MainBody[i].terminator.func) : i \in UnwindingForeignSites}
    \cup {LockLabel(i) : i \in UnwindingLockSites}
    \cup {LabelOfSite(STD_SYNC_MUTEX_NEW, NewSites, i) :
            i \in {k \in NewSites : IsSome(MainBody[k].terminator.cleanup)}}

\* the transitions of the calls of the entry function that have no return block
DivergingCallTransitions ==
    {diverging_call_transition_label(MainBody[i].terminator.func) :
        i \in {k \in 1..Len(MainBody) :
                /\ MainBody[k].terminator.kind = "Call"
                /\ ~is_panic_function(MainBody[k].terminator.func)
                /\ ~IsSome(MainBody[k].terminator.target)}}

\* C35 as stated: in the net of a program that spawns no thread every
\* reachable marking has exactly one token on the places of control flow, so
\* PROGRAM_END and PROGRAM_PANIC are never both marked; in general the tokens
\* of control flow are at most one plus the number of spawn transitions fired.
C35_OneControlTokenPerThread ==
    GameOnFinishedRun =>
        /\ SpawnTransitions(GameNet) = {} =>
            /\ ControlTokens = 1
            /\ ~(marking[PROGRAM_END] >= 1 /\ marking[PROGRAM_PANIC] >= 1)
        /\ ControlTokens <= 1 + FiredAmong(SpawnTransitions(GameNet))

\* C35, amended: the tokens on the places of control flow are at most one plus
\* the number of fired transitions that fork: spawn transitions and the
\* transitions of calls with a cleanup block, which mark the return block and
\* the cleanup block.  In the net of a program without spawn and without such
\* a call there is one token, or none once a call without return block has
\* fired, and PROGRAM_END and PROGRAM_PANIC are never both marked.
C35_ControlTokensBoundedByForks ==
    GameOnFinishedRun =>
        /\ ControlTokens
                <= 1 + FiredAmong(SpawnTransitions(GameNet) \cup CleanupCallTransitions)
        /\ (SpawnTransitions(GameNet) = {} /\ CleanupCallTransitions = {}) =>
            /\ ControlTokens = IF FiredAmong(DivergingCallTransitions) = 0 THEN 1 ELSE 0
            /\ ~(marking[PROGRAM_END] >= 1 /\ marking[PROGRAM_PANIC] >= 1)

\* the call of a foreign function with a cleanup block has fired in the net of
\* a program without spawn: the return block and the cleanup block are marked
C35_Witness ==
    /\ GameOnFinishedRun
    /\ SpawnTransitions(GameNet) = {}
    /\ UnwindingForeignSites = {1}
    /\ fired = <<foreign_call_transition_label(FOREIGN_G)>>
    /\ marking[basic_block_place_label(MAIN, 1)] = 1
    /\ marking[CleanupPlaceOfSite(1)] = 1
    /\ ControlTokens = 2

----------------------------------------------------------------------------
(* C36 *)

\* the translator is not stopped
Runs(t) == t.panic = NoPanic

\* the locations and the handles a second link is tried with
RelinkPlaces == {Place(3), Field(5, 0)}
RelinkHandles == 0..1

----------------------------------------------------------------------------
(* C37 *)

\* the value the last call of get_result returned
LastResult == results'[Len(results')]

\* C37: get_result hands the net over once.  A call that finds no error
\* message returns Ok with the net the translator holds and leaves the empty
\* net in the translator: before run the first call returns the initial net
\* of three places; after a successful run the first call returns the net
\* that run produced, and every later call returns Ok with a net without
\* places, transitions and arcs.  Nothing else of the translator changes.
C37_GetResultTakesTheNet ==
    [][(GetResult /\ ~IsSome(err_str)) =>
        /\ Len(results') = Len(results) + 1
        /\ SubSeq(results', 1, Len(results)) = results
        /\ LastResult.ok
        /\ LastResult.net = net
        /\ net' = EmptyNet
        /\ net'.places = {}
        /\ UNCHANGED <<pc, err_str, call_stack, mutex_manager, thread_manager, panic>>
        /\ (pc = "new" /\ results = <<>>) =>
            /\ LastResult.net.places = FixedPlaces
            /\ Cardinality(LastResult.net.places) = 3
            /\ LastResult.net.transitions = {}
            /\ TokensOf(LastResult.net, PROGRAM_START) = 1
        /\ (pc = "done" /\ results = <<>>) =>
            /\ FixedPlaces \subseteq LastResult.net.places
            /\ LastResult.net.transitions # {}
            /\ return_transition_label(MAIN) \in LastResult.net.transitions
        /\ (results # <<>> /\ results[Len(results)].at = pc) =>
            /\ LastResult.net = EmptyNet
            /\ LastResult.net.places \cap FixedPlaces = {}]_vars

\* get_result was called twice after a successful run: the first call returned
\* the net with the thread of the program, the second an empty net, as Ok
C37_Witness ==
    /\ pc = "done"
    /\ Len(results) = 2
    /\ results[1].at = "done"
    /\ results[1].ok
    /\ start_place_label(0) \in results[1].net.places
    /\ results[2].at = "done"
    /\ results[2].ok
    /\ results[2].net.places = {}
    /\ net = EmptyNet

----------------------------------------------------------------------------
(* C38 *)

\* the function names of the program
ProgramNames == DOMAIN program.functions \cup program.foreign

\* the kinds of entity that naming::function and naming::thread label by a
\* function name
LabelKinds == {"return", "foreign_call", "foreign_call_unwind", "diverging_call", "panic",
               "function"}

LabelOf(kind, function_name, index) ==
    CASE kind = "return" -> return_transition_label(function_name)
      [] kind = "foreign_call" -> foreign_call_transition_label(function_name)
      [] kind = "foreign_call_unwind" -> foreign_call_unwind_transition_label(function_name)
      [] kind = "diverging_call" -> diverging_call_transition_label(function_name)
      [] kind = "panic" -> panic_transition_label(function_name)
      [] kind = "function" -> function_transition_label(function_name, index)

\* C38: the label functions are collision-free across entity kinds and
\* function names: two different pairs (entity kind, function name), over the
\* names of a program, which may contain '_' and the words the labels end in,
\* never get the same label.
C38_LabelsCollisionFree ==
    \A first, second \in LabelKinds \X ProgramNames :
        first # second =>
            \A i, j \in 0..1 :
                LabelOf(first[1], first[2], i) # LabelOf(second[1], second[2], j)

----------------------------------------------------------------------------
(* C39 *)

\* the calls of std::sync::Arc that are counted, and the sequences of them that
\* are translated in a row
ArcCalls == {STD_SYNC_ARC_NEW, STD_OPS_DEREF_DEREF, STD_CLONE_CLONE_CLONE}
MaxArcCalls == 3
ArcCallSequences == UNION {[1..n -> ArcCalls] : n \in 0..MaxArcCalls}

\* one call, from PROGRAM_START to PROGRAM_END, with PROGRAM_PANIC as the
\* cleanup place where the call takes one
TranslateArcCall(state, call) ==
    CASE call = STD_SYNC_ARC_NEW ->
            ArcManager_translate_call_new(state.arc_manager, state.translator,
                                          PROGRAM_START, PROGRAM_END)
      [] call = STD_OPS_DEREF_DEREF ->
            ArcManager_translate_call_deref(state.arc_manager, state.translator,
                                            PROGRAM_START, PROGRAM_END, Some(PROGRAM_PANIC))
      [] call = STD_CLONE_CLONE_CLONE ->
            ArcManager_translate_call_clone(state.arc_manager, state.translator,
                                            PROGRAM_START, PROGRAM_END, None)

RECURSIVE TranslateArcCalls(_, _)
TranslateArcCalls(state, calls) ==
    IF calls = <<>> THEN state
    ELSE TranslateArcCalls(TranslateArcCall(state, Head(calls)), Tail(calls))

\* how many of the calls are calls of the function
CallsOf(calls, function_name) ==
    Cardinality({i \in 1..Len(calls) : calls[i] = function_name})

\* the labels of the first n calls of the function
FirstLabels(function_name, n) ==
    {arc_function_transition_label(function_name, k) : k \in 0..(n - 1)}

\* the transitions of the lock calls in a net
LockTransitions(n) ==
    {label \in n.transitions :
        \E k \in 0..Cardinality(n.transitions) :
            label = mutex_function_transition_label(STD_SYNC_MUTEX_LOCK, k)}

\* C39: each translated call of a counted primitive takes the value of the
\* counter of its kind for its label and increases that counter by one: where
\* the translation stands at a terminator, after any sequence of Arc::new, deref and
\* clone calls translated there each counter is the number
\* of calls of its kind, the transitions added are labelled 0 .. n - 1 per
\* kind, and the counters of the mutexes and threads are as they were; a lock
\* call is labelled with the lock counter and increases it by one, so the
\* lock transitions of the net are labelled 0 .. lock_counter - 1, and no other
\* step of the translation changes the lock counter.
C39_CountersNumberTheCalls ==
    [][(panic = NoPanic /\ panic' = NoPanic /\ RunOnFreshTranslator /\ results = <<>>) =>
        /\ AtTerminator => \A calls \in ArcCallSequences :
            LET after == TranslateArcCalls(
                            [arc_manager |-> ArcManager_new, translator |-> Cur], calls)
            IN  /\ after.arc_manager.arc_counter = CallsOf(calls, STD_SYNC_ARC_NEW)
                /\ after.arc_manager.deref_counter = CallsOf(calls, STD_OPS_DEREF_DEREF)
                /\ after.arc_manager.clone_counter = CallsOf(calls, STD_CLONE_CLONE_CLONE)
                /\ after.translator.panic = NoPanic
                /\ after.translator.net.transitions \ net.transitions
                     = UNION {FirstLabels(call, CallsOf(calls, call)) : call \in ArcCalls}
                /\ Cardinality(after.translator.net.transitions \ net.transitions)
                     = Len(calls)
                /\ after.translator.mutex_manager = mutex_manager
                /\ after.translator.thread_manager = thread_manager
        /\ LockTransitions(net)
             = {mutex_function_transition_label(STD_SYNC_MUTEX_LOCK, k) :
                    k \in 0..(mutex_manager.lock_counter - 1)}
        /\ CallMutexLock =>
            /\ net'.transitions \ net.transitions
                 = {mutex_function_transition_label(STD_SYNC_MUTEX_LOCK,
                                                    mutex_manager.lock_counter)}
            /\ mutex_manager'.lock_counter = mutex_manager.lock_counter + 1
            /\ mutex_manager'.mutexes = mutex_manager.mutexes
            /\ thread_manager' = thread_manager
        /\ ~CallMutexLock => mutex_manager'.lock_counter = mutex_manager.lock_counter]_vars

\* the mutex has been locked twice and the translation stands at a terminator:
\* the lock transitions 0 and 1 are in the net, and of a clone, a deref and a
\* clone translated there the second clone is labelled 1
C39_Witness ==
    /\ Walking
    /\ RunOnFreshTranslator
    /\ results = <<>>
    /\ panic = NoPanic
    /\ AtTerminator
    /\ mutex_manager.lock_counter = 2
    /\ Len(mutex_manager.mutexes) = 1
    /\ LockTransitions(net)
         = {mutex_function_transition_label(STD_SYNC_MUTEX_LOCK, k) : k \in 0..1}
    /\ LET after == TranslateArcCalls(
                        [arc_manager |-> ArcManager_new, translator |-> Cur],
                        <<STD_CLONE_CLONE_CLONE, STD_OPS_DEREF_DEREF, STD_CLONE_CLONE_CLONE>>)
       IN  /\ after.arc_manager.clone_counter = 2
           /\ arc_function_transition_label(STD_CLONE_CLONE_CLONE, 1)
                \in after.translator.net.transitions

============================================================================
